---- MODULE Spec2Model ----
(***************************************************************************)
(* Model of the crowns solver: the board (cells, rows, columns, areas),    *)
(* the five deduction rules, the speculative guess with snapshot/restore,  *)
(* and the solving loop with its cancellation flag.                        *)
(***************************************************************************)
EXTENDS Integers, Sequences, FiniteSets, TLC

\* ------------------------------------------------------------------------
\* Input boards: each board is the colour (region key) of every cell,
\* row by row.  Init draws one of the first MaxBoard boards; the last
\* board is a 5 x 5 board with one valid solution, solved under LargeSpec.
\* ------------------------------------------------------------------------
Boards ==
  << << <<0,0,0,0>>, <<1,1,1,1>>, <<2,2,2,2>>, <<3,3,3,3>> >>,
     << <<0,1,2,2>>, <<0,2,2,2>>, <<0,3,3,2>>, <<0,3,3,3>> >>,
     << <<0,1,1,2>>, <<0,0,0,2>>, <<0,3,3,3>>, <<0,3,3,3>> >>,
     << <<0,0,0,1>>, <<0,0,2,1>>, <<3,2,2,1>>, <<3,2,2,2>> >>,
     << <<0,1,1,0>>, <<0,0,0,0>>, <<2,2,0,3>>, <<2,2,3,3>> >>,
     << <<0,1,2,2>>, <<0,1,3,2>>, <<0,1,3,3>>, <<0,3,3,3>> >>,
     << <<0>> >>,
     << <<0,1>>, <<0,1>> >>,
     << <<0,0,1>>, <<0,2,1>>, <<2,2,1>> >>,
     << <<0,1,2,3>>, <<0,1,2,3>>, <<0,1,2,3>>, <<0,1,2,3>> >>,
     << <<0,0,1,1,2>>, <<0,0,3,3,2>>, <<0,0,3,3,2>>, <<4,0,2,2,2>>,
        <<4,4,2,2,2>> >> >>

MaxBoard == 9

\* The board whose area i is exactly row i.
RowBoard ==
  CHOOSE b \in 1 .. Len(Boards) :
    Boards[b] = << <<0,0,0,0>>, <<1,1,1,1>>, <<2,2,2,2>>, <<3,3,3,3>> >>

\* Program state: the board drawn, every cell's state, the solver's fields,
\* the position of the solving thread (pc, rule_idx, progress), the frames
\* of the guesses in progress (stack) and what the last guess returned.
\* saved is a snapshot held by a caller of Board.save_state.
\* History: guessed (guess was called), returned_empty (rules that proposed
\* nothing in the current apply_rules call), entered (what each guess in
\* progress found on entry), committed (cells crowned on the live board),
\* saved_from (the cell states when saved was taken).
VARIABLES board, state, crowns, guess_flag, click_enabled, stop_flag,
          pc, rule_idx, progress, stack, crown_found, target_cell, saved,
          guessed, returned_empty, entered, committed, saved_from

\* The click settings (settings.json, read with get_setting), the pointer
\* actions issued so far (click_at calls per cell, click_and_drag calls in
\* order, and how many of them were issued with the stop flag already set),
\* and the live board as it was before the guess during which Esc was
\* pressed.
VARIABLES settings, clicks, drags, after_stop, cancelled_guess

\* The frame of a call of cross_cells_path: its argument, the board at the
\* call, its list cells_to_cross (path_cells), the segments committed so
\* far and the exception raised.
VARIABLES path_input, path_before, path_cells, segments, raised

path_vars == << path_input, path_before, path_cells, segments, raised >>

\* The objects built at construction and a query made on them: the number
\* of cells handed to Board, the matrix Board.cells, the member list
\* (cells) of every Row, Column and Area, the unit a caller is working on,
\* the last method called with its arguments, and what it returned.
VARIABLES cell_count, grid, unit, members, call, result

query_vars == << cell_count, grid, unit, members, call, result >>

vars == << board, state, crowns, guess_flag, click_enabled, stop_flag,
           pc, rule_idx, progress, stack, crown_found, target_cell, saved,
           guessed, returned_empty, entered, committed, saved_from,
           settings, clicks, drags, after_stop, cancelled_guess, path_vars, query_vars >>

\* ------------------------------------------------------------------------
\* Small helpers
\* ------------------------------------------------------------------------
Min(S) == CHOOSE m \in UNION { { x \in T : \A y \in T : x <= y } : T \in { S } } : TRUE

Max(S) == CHOOSE m \in UNION { { x \in T : \A y \in T : x >= y } : T \in { S } } : TRUE

NoCell == << -1, -1 >>

\* ------------------------------------------------------------------------
\* Board geometry (board.py)
\* ------------------------------------------------------------------------
get_dimensions(b) == Len(Boards[b])

CellsOf(b) == (0 .. (get_dimensions(b) - 1)) \X (0 .. (get_dimensions(b) - 1))

get_cell_position(b, c) == c[1] * get_dimensions(b) + c[2]

color(b, c) == Boards[b][c[1] + 1][c[2] + 1]

\* A faulty get_surrounding_cells that leaves out the diagonal neighbours;
\* C8_CrownExcludesAround does not hold of it.
get_surrounding_cells_orthogonal(b, c) ==
  { d \in CellsOf(b) :
      /\ d # c
      /\ \/ d[1] = c[1] /\ d[2] \in (c[2] - 1) .. (c[2] + 1)
         \/ d[2] = c[2] /\ d[1] \in (c[1] - 1) .. (c[1] + 1) }

get_surrounding_cells(b, c) ==
  { d \in CellsOf(b) :
      /\ d[1] \in (c[1] - 1) .. (c[1] + 1)
      /\ d[2] \in (c[2] - 1) .. (c[2] + 1)
      /\ d # c }

\* ------------------------------------------------------------------------
\* Areas and lines (Solver.create_areas, Solver.create_lines)
\* ------------------------------------------------------------------------
area_cells(b, a) == { c \in CellsOf(b) : color(b, c) = a }

\* First cell of a set in row-major order: the order in which create_areas
\* appends cells to an area, and in which comprehensions over it iterate.
first_cell(b, S) ==
  CHOOSE f \in UNION { { c \in T : \A d \in T :
                            get_cell_position(b, c) <= get_cell_position(b, d) }
                      : T \in { S } } : TRUE

\* The areas dictionary in insertion order: an area is created when its
\* first cell is met by the row-major scan.
create_areas(b) ==
  LET keys == { color(b, c) : c \in CellsOf(b) }
      rank(a) == Cardinality({ k \in keys :
                     get_cell_position(b, first_cell(b, area_cells(b, k)))
                       < get_cell_position(b, first_cell(b, area_cells(b, a))) }) + 1
  IN  [ i \in 1 .. Cardinality(keys) |-> CHOOSE a \in keys : rank(a) = i ]

AreasTbl == [ b \in 1 .. Len(Boards) |-> create_areas(b) ]

\* self.rows + self.columns: rows by index, then columns by index.
create_lines(b) ==
  [ i \in 1 .. (2 * get_dimensions(b)) |->
      IF i <= get_dimensions(b) THEN << "row", i - 1 >>
                                ELSE << "column", i - get_dimensions(b) - 1 >> ]

line_cells(b, l) ==
  IF l[1] = "row" THEN { c \in CellsOf(b) : c[1] = l[2] }
                  ELSE { c \in CellsOf(b) : c[2] = l[2] }

row_ref(c) == << "row", c[1] >>

column_ref(c) == << "column", c[2] >>

get_line_except_cell(b, l, c) == line_cells(b, l) \ { c }

\* Area.get_area_except_cell is called by the solver but is not defined in
\* board/area.py; it is taken from the specification's cellsExcept.
get_area_except_cell(b, a, c) == area_cells(b, a) \ { c }

\* State-level shorthands for the board drawn by Init.
N == get_dimensions(board)

Cells == CellsOf(board)

areas == AreasTbl[board]

lines == create_lines(board)

area_ref(c) == color(board, c)

\* ------------------------------------------------------------------------
\* The objects as constructed: Board.cells and the member lists
\* ------------------------------------------------------------------------
\* The cells of a set in the order of the row-major scan of create_areas.
RECURSIVE scan_order(_, _)
scan_order(b, S) ==
  IF S = {} THEN << >>
  ELSE << first_cell(b, S) >> \o scan_order(b, S \ { first_cell(b, S) })

\* create_lines: cells_in_row / cells_in_column, the list given to Row and
\* Column.
cells_in_line(b, l) ==
  [ k \in 1 .. get_dimensions(b) |->
      IF l[1] = "row" THEN << l[2], k - 1 >> ELSE << k - 1, l[2] >> ]

Units(b) ==
  { << "area", AreasTbl[b][i] >> : i \in 1 .. Len(AreasTbl[b]) }
    \cup { create_lines(b)[i] : i \in 1 .. Len(create_lines(b)) }

\* A faulty add_cell that keeps only the cell added last;
\* C26_UnitsPartitionCells does not hold of it.
add_cell_keeps_last(b, a) ==
  << scan_order(b, area_cells(b, a))[Cardinality(area_cells(b, a))] >>

\* Area.add_cell appends the cells of an area in the order of the scan.
add_cell(b, a) == scan_order(b, area_cells(b, a))

create_members(b) ==
  [ u \in Units(b) |->
      IF u[1] = "area" THEN add_cell(b, u[2]) ELSE cells_in_line(b, u) ]

\* Board.cells of a board of the catalogue, a cell named by its position.
board_cells(b) ==
  [ i \in 1 .. get_dimensions(b) |-> [ j \in 1 .. get_dimensions(b) |-> << i - 1, j - 1 >> ] ]

NoUnit == << "none", 0 >>

NoCall == [ op |-> "", args |-> << >> ]

\* Board and Solver constructed on board b of the catalogue, no query made.
Constructed(b) ==
  /\ cell_count = get_dimensions(b) * get_dimensions(b)
  /\ grid = board_cells(b)
  /\ unit = NoUnit
  /\ members = create_members(b)
  /\ call = NoCall
  /\ result = << >>

\* ------------------------------------------------------------------------
\* Cell states (cell.py)
\* ------------------------------------------------------------------------
States == { "empty", "cross", "crown" }

toggle_state(s) ==
  CASE s = "empty" -> "cross"
    [] s = "cross" -> "crown"
    [] s = "crown" -> "empty"

RECURSIVE toggle_until(_, _)
toggle_until(s, goal) ==
  IF s = goal THEN s ELSE toggle_until(toggle_state(s), goal)

\* set_cell_crown / set_cell_cross: toggle the cell until it has the state.
set_cell_crown(st, c) == [ st EXCEPT ![c] = toggle_until(@, "crown") ]

\* A faulty set_cell_cross that toggles a cell that is not crossed once
\* only, leaving a crowned cell empty; C40_IterationsResolveCells does not
\* hold of it.
set_cell_cross_once(st, c) ==
  [ st EXCEPT ![c] = IF @ = "cross" THEN @ ELSE toggle_state(@) ]

set_cell_cross(st, c) == [ st EXCEPT ![c] = toggle_until(@, "cross") ]

\* The number of toggle_cell calls set_cell_crown / set_cell_cross makes on
\* a cell in state s.
toggles(s, goal) ==
  IF s = goal THEN 0
  ELSE IF toggle_state(s) = goal THEN 1
  ELSE 2

\* toggle_cell, `if click and self.click_enabled and not self.stop_flag`.
clicking(click) == click /\ click_enabled /\ ~stop_flag

\* The click_at calls of set_cell_crown / set_cell_cross on the cells S of
\* the board st: one per toggle when clicking.
click_cells(clk, st, S, goal, click) ==
  [ c \in DOMAIN clk |->
      IF c \in S /\ click THEN clk[c] + toggles(st[c], goal) ELSE clk[c] ]

\* The click_at calls of crown_cell on the cells S (at most one) and of
\* cross_cells on the cells S, with the click setting each one reads.
crown_clicks(clk, st, S) ==
  click_cells(clk, st, S, "crown", clicking(settings.click_crown_enabled))

cross_clicks(clk, st, S) ==
  click_cells(clk, st, S, "cross", clicking(settings.click_cross_enabled))

cross_cells(st, S) ==
  [ c \in DOMAIN st |-> IF c \in S THEN set_cell_cross(st, c)[c] ELSE st[c] ]

\* ------------------------------------------------------------------------
\* Queries on areas and lines (area.py, line.py)
\* ------------------------------------------------------------------------
get_empty_cells(st, S) == { c \in S : st[c] = "empty" }

\* A faulty check_empty_spot that does not look for crowns;
\* C24_EmptySpot does not hold of it.
check_empty_spot_ignores_crowns(st, S) ==
  IF Cardinality(get_empty_cells(st, S)) = 1 THEN get_empty_cells(st, S) ELSE {}

\* check_empty_spot: the single empty cell of a unit without crown, as a
\* set of at most one cell ({} stands for None).
check_empty_spot(st, S) ==
  IF { c \in S : st[c] = "crown" } = {} /\ Cardinality(get_empty_cells(st, S)) = 1
  THEN get_empty_cells(st, S)
  ELSE {}

get_rows_of_empty_cells(st, a) ==
  { row_ref(c) : c \in get_empty_cells(st, area_cells(board, a)) }

get_columns_of_empty_cells(st, a) ==
  { column_ref(c) : c \in get_empty_cells(st, area_cells(board, a)) }

get_empty_spaces(st) ==
  UNION { get_empty_cells(st, area_cells(board, areas[i])) : i \in 1 .. Len(areas) }

\* ------------------------------------------------------------------------
\* Snapshot (Board.save_state / Board.load_state): a matrix of state strings
\* ------------------------------------------------------------------------
\* A faulty save_state that writes the matrix column by column;
\* C7_SnapshotRoundTrip does not hold of it.
save_state_transposed(st) ==
  [ i \in 1 .. N |-> [ j \in 1 .. N |-> st[<< j - 1, i - 1 >>] ] ]

save_state(st) ==
  [ i \in 1 .. N |-> [ j \in 1 .. N |-> st[<< i - 1, j - 1 >>] ] ]

\* A faulty load_state that sets every cell to a state that is none of the
\* three; C27_OnlyStatesChange does not hold of it.
load_state_unknown(st, m) == [ c \in DOMAIN st |-> "unknown" ]

\* A faulty load_state that sets no cell; C6_GuessRestores does not hold
\* of it.
load_state_nothing(st, m) == st

load_state(st, m) ==
  [ c \in DOMAIN st |-> m[c[1] + 1][c[2] + 1] ]

\* ------------------------------------------------------------------------
\* Deduction rules (solver.py).  A rule returns (crown, crosses): crown is a
\* set of at most one cell ({} for None), crosses the cells to cross.
\* ------------------------------------------------------------------------
NoProposal == [ crown |-> {}, crosses |-> {} ]

get_crosses_from_crown(crown) ==
  get_line_except_cell(board, column_ref(crown), crown)
    \cup get_line_except_cell(board, row_ref(crown), crown)
    \cup get_area_except_cell(board, area_ref(crown), crown)
    \cup get_surrounding_cells(board, crown)

\* In the rules a value that is used several times is bound by a set
\* constructor over a singleton ({ e(x) : x \in { v } }), which computes it
\* once; UNION takes the single result out again.

\* The units rule one looks at, in its order: the areas in dictionary
\* order, then self.rows + self.columns.
unit_cells(i) ==
  IF i <= Len(areas) THEN area_cells(board, areas[i])
                     ELSE line_cells(board, lines[i - Len(areas)])

\* Rule one: the first area, else the first line, with no crown and one
\* empty cell; the cell is crowned and everything around it crossed.
\* A faulty search that keeps the last unit with a single empty spot
\* instead of stopping at the first; C31_RuleOne does not hold of it.
check_empty_spots_last(st) ==
  UNION { IF { i \in DOMAIN spot : spot[i] # {} } = {} THEN {}
          ELSE spot[Max({ i \in DOMAIN spot : spot[i] # {} })]
          : spot \in { [ i \in 1 .. (Len(areas) + Len(lines)) |->
                           check_empty_spot(st, unit_cells(i)) ] } }

check_empty_spots(st) ==
  UNION { IF { i \in DOMAIN spot : spot[i] # {} } = {} THEN {}
          ELSE spot[Min({ i \in DOMAIN spot : spot[i] # {} })]
          : spot \in { [ i \in 1 .. (Len(areas) + Len(lines)) |->
                           check_empty_spot(st, unit_cells(i)) ] } }

rule_one(st) ==
  [ crown   |-> check_empty_spots(st),
    crosses |-> UNION { get_crosses_from_crown(c) : c \in check_empty_spots(st) } ]

\* Rule two, per area: the line (a set of at most one) that holds all the
\* empty cells of an area with at least two of them; rows are tried first.
confining_line(st, a) ==
  UNION { IF Cardinality(e) < 2 THEN {}
          ELSE IF Cardinality({ row_ref(c) : c \in e }) = 1
            THEN { row_ref(c) : c \in e }
          ELSE IF Cardinality({ column_ref(c) : c \in e }) = 1
            THEN { column_ref(c) : c \in e }
          ELSE {}
          : e \in { get_empty_cells(st, area_cells(board, a)) } }

\* Rule two: the loop over the areas has no break, so the proposal is the
\* one computed for the last area whose empty cells lie in one line: the
\* empty cells of that line outside the area.
rule_two(st) ==
  [ crown   |-> {},
    crosses |->
      UNION { IF { i \in DOMAIN line : line[i] # {} } = {} THEN {}
              ELSE UNION { { c \in UNION { line_cells(board, l) : l \in line[last] } :
                               /\ c \notin get_empty_cells(st, area_cells(board, areas[last]))
                               /\ st[c] = "empty" }
                           : last \in { Max({ i \in DOMAIN line : line[i] # {} }) } }
              : line \in { [ i \in 1 .. Len(areas) |-> confining_line(st, areas[i]) ] } } ]

\* Rule three: the first line (rows, then columns) whose empty cells all
\* belong to one area; the loop breaks there.  The proposal is the empty
\* cells of that area outside the line.
rule_three(st) ==
  [ crown   |-> {},
    crosses |->
      UNION { IF { i \in DOMAIN areas_in_line : Cardinality(areas_in_line[i]) = 1 } = {} THEN {}
              ELSE UNION { UNION { get_empty_cells(st, area_cells(board, area))
                                     \ line_cells(board, lines[first])
                                   : area \in areas_in_line[first] }
                           : first \in { Min({ i \in DOMAIN areas_in_line :
                                                 Cardinality(areas_in_line[i]) = 1 }) } }
              : areas_in_line \in
                  { [ i \in 1 .. Len(lines) |->
                        { area_ref(c) : c \in get_empty_cells(st, line_cells(board, lines[i])) } ] } } ]

\* A faulty get_common_cells that returns the cells present in some set of
\* the list; C34_RuleFour does not hold of it.
get_common_cells_any(sets_of_cells) == UNION sets_of_cells

\* get_common_cells: the cells present in every set of the list.
get_common_cells(sets_of_cells) ==
  UNION { IF sets = {} THEN {}
          ELSE { c \in UNION sets : \A S \in sets : c \in S }
          : sets \in { sets_of_cells } }

\* Rule four: for each area with at least two empty cells, the empty cells
\* that lie around, or in line with, every empty cell of the area.
surrounding_and_lines(c) ==
  get_surrounding_cells(board, c)
    \cup get_line_except_cell(board, row_ref(c), c)
    \cup get_line_except_cell(board, column_ref(c), c)

rule_four(st) ==
  [ crown   |-> {},
    crosses |->
      UNION { UNION { IF Cardinality(empty_cells) < 2 THEN {}
                      ELSE { c \in get_common_cells({ surrounding_and_lines(e) : e \in empty_cells }) :
                               st[c] = "empty" }
                      : empty_cells \in { get_empty_cells(st, area_cells(board, areas[i])) } }
              : i \in 1 .. Len(areas) } ]

\* find_matching_entries (utils/logic.py): the first combination, in the
\* order of itertools.combinations over the dictionary order, of
\* `threshold` entries whose values together hold `threshold` elements.
\* dict maps area indices to sets of lines; {} stands for None.
\* (d and combos are bound by set constructors, which evaluate them once.)
precedes(S, T) == Min((S \ T) \cup (T \ S)) \in S

first_combination(d, threshold) ==
  UNION { IF combos = {} THEN {}
          ELSE CHOOSE S \in combos : \A T \in combos \ { S } : precedes(S, T)
          : combos \in { { S \in SUBSET { k \in DOMAIN d : Cardinality(d[k]) <= threshold } :
                             /\ Cardinality(S) = threshold
                             /\ Cardinality(UNION { d[k] : k \in S }) = threshold } } }

find_matching_entries(dict, threshold) ==
  UNION { first_combination(d, threshold) : d \in { dict } }

\* Rule five, process_line.  kind is "row" or "column".  For the first
\* number i of matching areas that yields cells, the empty cells of the
\* matching areas' lines that belong to no matching area.
lines_of_empty_cells(st, kind, i) ==
  IF kind = "row" THEN get_rows_of_empty_cells(st, areas[i])
                  ELSE get_columns_of_empty_cells(st, areas[i])

cells_to_cross(st, kind, matching_areas) ==
  { c \in UNION { get_empty_cells(st, line_cells(board, l)) :
                    l \in UNION { lines_of_empty_cells(st, kind, k) : k \in matching_areas } } :
      \A k \in matching_areas : area_ref(c) # areas[k] }

process_line(st, kind) ==
  LET min_value == 2
      max_value == (Len(areas) + 1) \div 2
      areas_dictionary ==
        [ i \in { j \in 1 .. Len(areas) : lines_of_empty_cells(st, kind, j) # {} } |->
            lines_of_empty_cells(st, kind, i) ]
  IN  UNION { IF { i \in DOMAIN found : found[i] # {} } = {} THEN {}
              ELSE found[Min({ i \in DOMAIN found : found[i] # {} })]
              : found \in { [ i \in min_value .. max_value |->
                                UNION { cells_to_cross(st, kind, m) :
                                          m \in { find_matching_entries(d, i) } } ]
                            : d \in { areas_dictionary } } }

rule_five(st) ==
  [ crown   |-> {},
    crosses |-> process_line(st, "row") \cup process_line(st, "column") ]

rules(k, st) ==
  CASE k = 1 -> rule_one(st)
    [] k = 2 -> rule_two(st)
    [] k = 3 -> rule_three(st)
    [] k = 4 -> rule_four(st)
    [] k = 5 -> rule_five(st)

NumRules == 5

\* A faulty target selection that takes the area with the most empty
\* cells; C36_GuessTarget does not hold of it.
guess_target_largest(st) ==
  LET empty_cells(i) == get_empty_cells(st, area_cells(board, areas[i]))
      filtered == { i \in 1 .. Len(areas) : empty_cells(i) # {} }
      most     == Max({ Cardinality(empty_cells(i)) : i \in filtered })
      largest  == Min({ i \in filtered : Cardinality(empty_cells(i)) = most })
  IN  first_cell(board, empty_cells(largest))

\* Guess target (Solver.guess steps 1-3 and 6): the first empty cell of the
\* first area, in dictionary order, with the fewest (but some) empty cells.
guess_target(st) ==
  LET empty_cells(i) == get_empty_cells(st, area_cells(board, areas[i]))
      filtered == { i \in 1 .. Len(areas) : empty_cells(i) # {} }
      fewest   == Min({ Cardinality(empty_cells(i)) : i \in filtered })
      smallest == Min({ i \in filtered : Cardinality(empty_cells(i)) = fewest })
  IN  first_cell(board, empty_cells(smallest))

\* ------------------------------------------------------------------------
\* The solving loop (Solver.solve, apply_rules, apply_guess, guess)
\* ------------------------------------------------------------------------
Init ==
  /\ board \in 1 .. MaxBoard
  /\ state = [ c \in CellsOf(board) |-> "empty" ]
  /\ crowns = 0
  /\ guess_flag = FALSE
  /\ settings \in [ click_enabled : BOOLEAN, click_cross_enabled : BOOLEAN,
                     click_crown_enabled : BOOLEAN ]
  /\ click_enabled = settings.click_enabled
  /\ stop_flag = FALSE
  /\ pc = "while"
  /\ rule_idx = 1
  /\ progress = FALSE
  /\ stack = << >>
  /\ crown_found = FALSE
  /\ target_cell = NoCell
  /\ saved = << >>
  /\ guessed = FALSE
  /\ returned_empty = {}
  /\ entered = << >>
  /\ committed = {}
  /\ saved_from = << >>
  /\ clicks = [ c \in CellsOf(board) |-> 0 ]
  /\ drags = << >>
  /\ after_stop = 0
  /\ cancelled_guess = << >>
  /\ path_input = << >>
  /\ path_before = state
  /\ path_cells = << >>
  /\ segments = << >>
  /\ raised = ""
  /\ Constructed(board)

\* The same construction on the largest board of the catalogue.
InitLarge ==
  /\ board = Len(Boards)
  /\ state = [ c \in CellsOf(board) |-> "empty" ]
  /\ crowns = 0
  /\ guess_flag = FALSE
  /\ settings \in [ click_enabled : BOOLEAN, click_cross_enabled : BOOLEAN,
                     click_crown_enabled : BOOLEAN ]
  /\ click_enabled = settings.click_enabled
  /\ stop_flag = FALSE
  /\ pc = "while"
  /\ rule_idx = 1
  /\ progress = FALSE
  /\ stack = << >>
  /\ crown_found = FALSE
  /\ target_cell = NoCell
  /\ saved = << >>
  /\ guessed = FALSE
  /\ returned_empty = {}
  /\ entered = << >>
  /\ committed = {}
  /\ saved_from = << >>
  /\ clicks = [ c \in CellsOf(board) |-> 0 ]
  /\ drags = << >>
  /\ after_stop = 0
  /\ cancelled_guess = << >>
  /\ path_input = << >>
  /\ path_before = state
  /\ path_cells = << >>
  /\ segments = << >>
  /\ raised = ""
  /\ Constructed(board)

\* solve, `while not self.stop_flag`: leave the loop or call apply_rules.
solve_while ==
  /\ pc = "while"
  /\ IF stop_flag
       THEN pc' = "return" /\ UNCHANGED << rule_idx, returned_empty >>
       ELSE pc' = "rules" /\ rule_idx' = 1 /\ returned_empty' = {}
  /\ UNCHANGED << board, state, crowns, guess_flag, click_enabled, stop_flag,
                  progress, stack, crown_found, target_cell, saved, guessed,
                  entered, committed, saved_from,
                  settings, clicks, drags, after_stop, cancelled_guess, path_vars, query_vars >>

\* A faulty apply_rules that does not return after applying a proposal but
\* goes on with the next rule; C4_RulesInOrder does not hold of it.
apply_rules_no_return ==
  /\ pc = "rules"
  /\ \E p \in { rules(rule_idx, state) } :
       /\ \E crowned \in { IF p.crown = {} THEN state
                             ELSE set_cell_crown(state, CHOOSE c \in p.crown : TRUE) } :
            /\ state' = cross_cells(crowned, p.crosses)
            /\ clicks' = cross_clicks(crown_clicks(clicks, state, p.crown),
                                      crowned, p.crosses)
       /\ crowns' = crowns + Cardinality(p.crown)
       /\ committed' = IF stack = << >> THEN committed \cup p.crown ELSE committed
       /\ returned_empty' = IF p = NoProposal THEN returned_empty \cup { rule_idx }
                                              ELSE returned_empty
       /\ IF rule_idx < NumRules
            THEN /\ rule_idx' = rule_idx + 1
                 /\ progress' = (returned_empty' # 1 .. rule_idx)
                 /\ UNCHANGED pc
            ELSE /\ progress' = (returned_empty' # 1 .. rule_idx)
                 /\ pc' = "complete"
                 /\ UNCHANGED rule_idx
  /\ UNCHANGED << board, guess_flag, click_enabled, stop_flag, stack,
                  crown_found, target_cell, saved, guessed, entered, saved_from,
                  settings, drags, after_stop, cancelled_guess, path_vars, query_vars >>

\* apply_rules, one turn of its for loop: evaluate rule rule_idx; a
\* non-empty proposal is applied (crown first, then crosses) and the call
\* returns True; after the last rule it returns False.
apply_rules ==
  /\ pc = "rules"
  /\ \E p \in { rules(rule_idx, state) } :
         IF p.crown # {} \/ p.crosses # {}
           THEN /\ \E crowned \in { IF p.crown = {} THEN state
                                      ELSE set_cell_crown(state, CHOOSE c \in p.crown : TRUE) } :
                     /\ state' = cross_cells(crowned, p.crosses)
                     /\ clicks' = cross_clicks(crown_clicks(clicks, state, p.crown),
                                               crowned, p.crosses)
                /\ crowns' = crowns + Cardinality(p.crown)
                /\ progress' = TRUE
                /\ pc' = "complete"
                /\ committed' = IF stack = << >> THEN committed \cup p.crown
                                                 ELSE committed
                /\ UNCHANGED << rule_idx, returned_empty >>
           ELSE /\ UNCHANGED << state, crowns, committed, clicks >>
                /\ returned_empty' = returned_empty \cup { rule_idx }
                /\ IF rule_idx < NumRules
                     THEN rule_idx' = rule_idx + 1 /\ UNCHANGED << pc, progress >>
                     ELSE progress' = FALSE /\ pc' = "complete" /\ UNCHANGED rule_idx
  /\ UNCHANGED << board, guess_flag, click_enabled, stop_flag, stack,
                  crown_found, target_cell, saved, guessed, entered, saved_from,
                  settings, drags, after_stop, cancelled_guess, path_vars, query_vars >>

\* A faulty solve that also guesses after an iteration that made progress;
\* C5_GuessIffStalled does not hold of it.
solve_check_always_guess ==
  /\ pc = "complete"
  /\ pc' = IF get_empty_spaces(state) = {} THEN "return" ELSE "guess"
  /\ UNCHANGED << board, state, crowns, guess_flag, click_enabled, stop_flag,
                  rule_idx, progress, stack, crown_found, target_cell, saved,
                  guessed, returned_empty, entered, committed, saved_from,
                  settings, clicks, drags, after_stop, cancelled_guess, path_vars, query_vars >>

\* solve, after apply_rules: break when no empty cell is left, call
\* apply_guess when no progress was made, else loop.
solve_check ==
  /\ pc = "complete"
  /\ pc' = IF get_empty_spaces(state) = {} THEN "return"
           ELSE IF ~progress THEN "guess"
           ELSE "while"
  /\ UNCHANGED << board, state, crowns, guess_flag, click_enabled, stop_flag,
                  rule_idx, progress, stack, crown_found, target_cell, saved,
                  guessed, returned_empty, entered, committed, saved_from,
                  settings, clicks, drags, after_stop, cancelled_guess, path_vars, query_vars >>

\* A faulty guess that does not disable clicking before it crowns its
\* target; C12_NoPointerActionInGuess does not hold of it.
guess_enter_clicking ==
  /\ pc = "guess"
  /\ \E target \in { guess_target(state) } :
         /\ stack' = Append(stack,
                       [ save_state_board   |-> save_state(state),
                         save_crowns        |-> crowns,
                         save_guess_flag    |-> guess_flag,
                         save_click_enabled |-> click_enabled,
                         target_cell        |-> target ])
         /\ state' = set_cell_crown(state, target)
         /\ crowns' = crowns + 1
         /\ clicks' = crown_clicks(clicks, state, { target })
  /\ guess_flag' = TRUE
  /\ guessed' = TRUE
  /\ entered' = Append(entered,
                  [ state |-> state, crowns |-> crowns,
                    click_enabled |-> click_enabled, guess_flag |-> guess_flag ])
  /\ pc' = "while"
  /\ UNCHANGED << board, click_enabled, stop_flag, rule_idx, progress, crown_found,
                  target_cell, saved, returned_empty, committed, saved_from,
                  settings, drags, after_stop, cancelled_guess, path_vars, query_vars >>

\* guess, up to its recursive call of solve: save the board, the counter and
\* the flags, disable clicking, crown the target.
guess_enter ==
  /\ pc = "guess"
  /\ \E target \in { guess_target(state) } :
         /\ stack' = Append(stack,
                       [ save_state_board   |-> save_state(state),
                         save_crowns        |-> crowns,
                         save_guess_flag    |-> guess_flag,
                         save_click_enabled |-> click_enabled,
                         target_cell        |-> target ])
         /\ state' = set_cell_crown(state, target)
         /\ crowns' = crowns + 1
         /\ click_enabled' = FALSE
         /\ clicks' = click_cells(clicks, state, { target }, "crown",
                                  /\ settings.click_crown_enabled
                                  /\ click_enabled'
                                  /\ ~stop_flag)
  /\ guess_flag' = TRUE
  /\ guessed' = TRUE
  /\ entered' = Append(entered,
                  [ state |-> state, crowns |-> crowns,
                    click_enabled |-> click_enabled, guess_flag |-> guess_flag ])
  /\ pc' = "while"
  /\ UNCHANGED << board, stop_flag, rule_idx, progress, crown_found, target_cell,
                  saved, returned_empty, committed, saved_from,
                  settings, drags, after_stop, cancelled_guess, path_vars, query_vars >>

\* A faulty guess that does not put the crown counter back;
\* C9_FailedGuessCrossesTarget does not hold of it.
guess_return_keeps_crowns ==
  /\ pc = "return"
  /\ stack # << >>
  /\ LET top == stack[Len(stack)]
     IN  /\ crown_found' = (crowns = Len(areas))
         /\ click_enabled' = top.save_click_enabled
         /\ state' = load_state(state, top.save_state_board)
         /\ guess_flag' = top.save_guess_flag
         /\ target_cell' = top.target_cell
  /\ stack' = SubSeq(stack, 1, Len(stack) - 1)
  /\ pc' = "guess_ret"
  /\ UNCHANGED << board, crowns, stop_flag, rule_idx, progress, saved, guessed,
                  returned_empty, entered, committed, saved_from,
                  settings, clicks, drags, after_stop, cancelled_guess, path_vars, query_vars >>

\* guess, after the recursive solve returned: test the counter, then undo
\* the simulation and return (crown_found, target_cell) to apply_guess.
guess_return ==
  /\ pc = "return"
  /\ stack # << >>
  /\ LET top == stack[Len(stack)]
     IN  /\ crown_found' = (crowns = Len(areas))
         /\ click_enabled' = top.save_click_enabled
         /\ state' = load_state(state, top.save_state_board)
         /\ crowns' = top.save_crowns
         /\ guess_flag' = top.save_guess_flag
         /\ target_cell' = top.target_cell
  /\ stack' = SubSeq(stack, 1, Len(stack) - 1)
  /\ pc' = "guess_ret"
  /\ UNCHANGED << board, stop_flag, rule_idx, progress, saved, guessed,
                  returned_empty, entered, committed, saved_from,
                  settings, clicks, drags, after_stop, cancelled_guess, path_vars, query_vars >>

\* A faulty apply_guess that does not test the stop flag;
\* C14_CancelledGuessCommitsNothing does not hold of it.
apply_guess_ignores_stop ==
  /\ pc = "guess_ret"
  /\ IF crown_found
       THEN /\ \E crowned \in { set_cell_crown(state, target_cell) } :
                 /\ state' = cross_cells(crowned, get_crosses_from_crown(target_cell))
                 /\ clicks' = cross_clicks(
                                crown_clicks(clicks, state, { target_cell }),
                                crowned, get_crosses_from_crown(target_cell))
            /\ crowns' = crowns + 1
            /\ committed' = IF stack = << >> THEN committed \cup { target_cell }
                                             ELSE committed
       ELSE /\ state' = set_cell_cross(state, target_cell)
            /\ clicks' = cross_clicks(clicks, state, { target_cell })
            /\ UNCHANGED << crowns, committed >>
  /\ crown_found' = FALSE
  /\ target_cell' = NoCell
  /\ entered' = SubSeq(entered, 1, Len(entered) - 1)
  /\ pc' = "while"
  /\ UNCHANGED << board, guess_flag, click_enabled, stop_flag, rule_idx,
                  progress, stack, saved, guessed, returned_empty, saved_from,
                  settings, drags, after_stop, cancelled_guess, path_vars, query_vars >>

\* A faulty apply_guess that leaves the cell of a failed guess as it is, so
\* that the same guess is made again; C3_SolveTerminates does not hold of it.
apply_guess_keeps_target ==
  /\ pc = "guess_ret"
  /\ IF ~stop_flag /\ crown_found
       THEN /\ \E crowned \in { set_cell_crown(state, target_cell) } :
                 /\ state' = cross_cells(crowned, get_crosses_from_crown(target_cell))
                 /\ clicks' = cross_clicks(
                                crown_clicks(clicks, state, { target_cell }),
                                crowned, get_crosses_from_crown(target_cell))
            /\ crowns' = crowns + 1
            /\ committed' = IF stack = << >> THEN committed \cup { target_cell }
                                             ELSE committed
       ELSE UNCHANGED << state, crowns, committed, clicks >>
  /\ crown_found' = FALSE
  /\ target_cell' = NoCell
  /\ entered' = SubSeq(entered, 1, Len(entered) - 1)
  /\ pc' = "while"
  /\ UNCHANGED << board, guess_flag, click_enabled, stop_flag, rule_idx,
                  progress, stack, saved, guessed, returned_empty, saved_from,
                  settings, drags, after_stop, cancelled_guess, path_vars, query_vars >>

\* apply_guess, after guess returned: nothing when stopped; a validated
\* guess is crowned and its surroundings crossed; a failed one is crossed.
apply_guess ==
  /\ pc = "guess_ret"
  /\ IF stop_flag
       THEN UNCHANGED << state, crowns, committed, clicks >>
       ELSE IF crown_found
         THEN /\ \E crowned \in { set_cell_crown(state, target_cell) } :
                   /\ state' = cross_cells(crowned, get_crosses_from_crown(target_cell))
                   /\ clicks' = cross_clicks(
                                  crown_clicks(clicks, state, { target_cell }),
                                  crowned, get_crosses_from_crown(target_cell))
              /\ crowns' = crowns + 1
              /\ committed' = IF stack = << >> THEN committed \cup { target_cell }
                                               ELSE committed
         ELSE /\ state' = set_cell_cross(state, target_cell)
              /\ clicks' = cross_clicks(clicks, state, { target_cell })
              /\ UNCHANGED << crowns, committed >>
  /\ crown_found' = FALSE
  /\ target_cell' = NoCell
  /\ entered' = SubSeq(entered, 1, Len(entered) - 1)
  /\ pc' = "while"
  /\ UNCHANGED << board, guess_flag, click_enabled, stop_flag, rule_idx,
                  progress, stack, saved, guessed, returned_empty, saved_from,
                  settings, drags, after_stop, cancelled_guess, path_vars, query_vars >>

\* The outermost solve returns.
solve_return ==
  /\ pc = "return"
  /\ stack = << >>
  /\ pc' = "done"
  /\ UNCHANGED << board, state, crowns, guess_flag, click_enabled, stop_flag,
                  rule_idx, progress, stack, crown_found, target_cell, saved,
                  guessed, returned_empty, entered, committed, saved_from,
                  settings, clicks, drags, after_stop, cancelled_guess, path_vars, query_vars >>

\* The listener thread: Esc sets the stop flag and stops the listener.
on_press ==
  /\ pc # "done"
  /\ ~stop_flag
  /\ stop_flag' = TRUE
  /\ cancelled_guess' = IF entered = << >> THEN cancelled_guess
                        ELSE << [ state |-> entered[1].state,
                                  crowns |-> entered[1].crowns ] >>
  /\ UNCHANGED << board, state, crowns, guess_flag, click_enabled, pc,
                  rule_idx, progress, stack, crown_found, target_cell, saved,
                  guessed, returned_empty, entered, committed, saved_from,
                  settings, clicks, drags, after_stop, path_vars, query_vars >>

SolverStep ==
  \/ solve_while
  \/ apply_rules
  \/ solve_check
  \/ guess_enter
  \/ guess_return
  \/ apply_guess
  \/ solve_return

Next == SolverStep \/ on_press

Spec == Init /\ [][Next]_vars

\* The solving thread keeps running: every step of the loop that can be
\* taken is eventually taken.
FairSpec == Spec /\ WF_vars(SolverStep)

\* A solve of the largest board.
LargeSpec == InitLarge /\ [][Next]_vars

\* ------------------------------------------------------------------------
\* Board snapshots on their own: a caller toggles cells of a small board,
\* takes a snapshot with save_state and restores it with load_state.
\* ------------------------------------------------------------------------
MaxSnapCells == 4

InitBoard ==
  /\ board \in { b \in 1 .. MaxBoard : Cardinality(CellsOf(b)) <= MaxSnapCells }
  /\ state = [ c \in CellsOf(board) |-> "empty" ]
  /\ crowns = 0
  /\ guess_flag = FALSE
  /\ click_enabled = FALSE
  /\ stop_flag = FALSE
  /\ pc = "board"
  /\ rule_idx = 1
  /\ progress = FALSE
  /\ stack = << >>
  /\ crown_found = FALSE
  /\ target_cell = NoCell
  /\ saved = << >>
  /\ guessed = FALSE
  /\ returned_empty = {}
  /\ entered = << >>
  /\ committed = {}
  /\ saved_from = << >>
  /\ settings = [ click_enabled |-> FALSE, click_cross_enabled |-> FALSE,
                  click_crown_enabled |-> FALSE ]
  /\ clicks = [ c \in CellsOf(board) |-> 0 ]
  /\ drags = << >>
  /\ after_stop = 0
  /\ cancelled_guess = << >>
  /\ path_input = << >>
  /\ path_before = state
  /\ path_cells = << >>
  /\ segments = << >>
  /\ raised = ""
  /\ Constructed(board)

\* Cell.toggle_state on one cell of the board.
board_toggle ==
  /\ pc = "board"
  /\ \E c \in Cells : state' = [ state EXCEPT ![c] = toggle_state(@) ]
  /\ UNCHANGED << board, crowns, guess_flag, click_enabled, stop_flag, pc,
                  rule_idx, progress, stack, crown_found, target_cell, saved,
                  guessed, returned_empty, entered, committed, saved_from,
                  settings, clicks, drags, after_stop, cancelled_guess, path_vars, query_vars >>

\* Board.save_state: the caller keeps the returned matrix.
board_save ==
  /\ pc = "board"
  /\ saved' = save_state(state)
  /\ saved_from' = state
  /\ UNCHANGED << board, state, crowns, guess_flag, click_enabled, stop_flag,
                  pc, rule_idx, progress, stack, crown_found, target_cell,
                  guessed, returned_empty, entered, committed,
                  settings, clicks, drags, after_stop, cancelled_guess, path_vars, query_vars >>

\* Board.load_state with the matrix kept.
board_load ==
  /\ pc = "board"
  /\ saved # << >>
  /\ state' = load_state(state, saved)
  /\ UNCHANGED << board, crowns, guess_flag, click_enabled, stop_flag, pc,
                  rule_idx, progress, stack, crown_found, target_cell, saved,
                  guessed, returned_empty, entered, committed, saved_from,
                  settings, clicks, drags, after_stop, cancelled_guess, path_vars, query_vars >>

NextBoard == board_toggle \/ board_save \/ board_load

BoardSpec == InitBoard /\ [][NextBoard]_vars

\* ------------------------------------------------------------------------
\* The action planner (Solver.cross_cells_path) on its own: a caller passes
\* a list to cross_cells_path while the listener thread may set the stop
\* flag.  One step per turn of the planner's while loop; the click of a
\* single cell is a step of its own, after the toggle_cell call has read
\* the stop flag.
\* ------------------------------------------------------------------------
MaxPathCells == 9

SeqToSet(q) == { q[i] : i \in DOMAIN q }

\* list.remove: the list without the first occurrence of x.
remove(q, x) ==
  LET i == Min({ k \in DOMAIN q : q[k] = x })
  IN  SubSeq(q, 1, i - 1) \o SubSeq(q, i + 1, Len(q))

RECURSIVE remove_all(_, _)
remove_all(q, xs) ==
  IF xs = << >> THEN q ELSE remove_all(remove(q, Head(xs)), Tail(xs))

is_empty(c) == state[c] = "empty"

\* The cell at position k (from 0) of a line.
line_cell(l, k) == IF l[1] = "row" THEN << l[2], k >> ELSE << k, l[2] >>

\* make_line_segments, the loop over self.cells: a cell joins the current
\* segment when it is a cell to cross or is not empty.
in_segment(st, T, c) == (c \in T /\ st[c] = "empty") \/ st[c] # "empty"

\* make_line_segments: the maximal stretches of such cells (first and last
\* position), in the order of the line.
stretches(st, l, T) ==
  { ab \in (0 .. (N - 1)) \X (0 .. (N - 1)) :
      /\ ab[1] <= ab[2]
      /\ \A k \in ab[1] .. ab[2] : in_segment(st, T, line_cell(l, k))
      /\ (ab[1] = 0 \/ ~in_segment(st, T, line_cell(l, ab[1] - 1)))
      /\ (ab[2] = N - 1 \/ ~in_segment(st, T, line_cell(l, ab[2] + 1))) }

segment_cells(l, ab) == [ k \in 1 .. (ab[2] - ab[1] + 1) |-> line_cell(l, ab[1] + k - 1) ]

\* trim_segment: `while segment and not segment[0].is_empty(): del segment[0]`
\* and the same from the right.
RECURSIVE trim_left(_, _)
trim_left(st, seg) ==
  IF seg # << >> /\ st[Head(seg)] # "empty" THEN trim_left(st, Tail(seg)) ELSE seg

RECURSIVE trim_right(_, _)
trim_right(st, seg) ==
  IF seg # << >> /\ st[seg[Len(seg)]] # "empty"
    THEN trim_right(st, SubSeq(seg, 1, Len(seg) - 1))
    ELSE seg

\* A faulty trim_segment that trims from the left only; C30_TrimSegment
\* does not hold of it.
trim_segment_left_only(st, seg) == trim_left(st, seg)

trim_segment(st, seg) == trim_right(st, trim_left(st, seg))

\* make_line_segments: every stretch trimmed, the empty results removed.
make_line_segments(st, l, T) ==
  { trim_segment(st, segment_cells(l, ab)) : ab \in stretches(st, l, T) } \ { << >> }

\* Line.get_position of a member cell.
get_position(l, c) == IF l[1] = "row" THEN c[2] ELSE c[1]

\* cross_cells_path, one turn of the while loop up to `segments.pop(0)`:
\* the lines that hold a cell to cross, with their count and the place of
\* their first entry in the dictionary (row before column of the same
\* cell); their segments, each with the sort keys that decide its place.
line_count(q, l) == Cardinality({ i \in DOMAIN q : q[i] \in line_cells(board, l) })

line_rank(q, l) ==
  2 * Min({ i \in DOMAIN q : q[i] \in line_cells(board, l) })
    + (IF l[1] = "row" THEN 0 ELSE 1)

candidate_segments(st, q) ==
  UNION { { [ cells |-> seg,
              count |-> line_count(q, lines[i]),
              rank  |-> line_rank(q, lines[i]),
              at    |-> get_position(lines[i], seg[1]) ]
            : seg \in make_line_segments(st, lines[i], SeqToSet(q)) }
          : i \in { j \in 1 .. Len(lines) : line_count(q, lines[j]) > 0 } }

\* Both sorts are stable and descending: s comes before t when it is longer;
\* among equally long ones when its line holds more cells to cross, then
\* when its line entered the dictionary first, then by position in the line.
sorts_before(s, t) ==
  \/ Len(s.cells) > Len(t.cells)
  \/ /\ Len(s.cells) = Len(t.cells)
     /\ \/ s.count > t.count
        \/ /\ s.count = t.count
           /\ \/ s.rank < t.rank
              \/ s.rank = t.rank /\ s.at <= t.at

largest_segment(st, q) ==
  LET cand == candidate_segments(st, q)
  IN  (CHOOSE s \in cand : \A t \in cand : sorts_before(s, t)).cells

\* The calls a caller makes: the cells of a set in the order of the board,
\* on a board with at most one cell that is not empty; on an empty board
\* also in the opposite order, or followed by a value that is not a Cell
\* (NoCell).
RECURSIVE in_board_order(_)
in_board_order(T) ==
  IF T = {} THEN << >>
  ELSE << first_cell(board, T) >> \o in_board_order(T \ { first_cell(board, T) })

reversed(q) == [ i \in 1 .. Len(q) |-> q[Len(q) + 1 - i] ]

InitPath ==
  /\ board \in { b \in 1 .. MaxBoard : Cardinality(CellsOf(b)) <= MaxPathCells }
  /\ state \in { [ c \in CellsOf(board) |-> IF c = r THEN s ELSE "empty" ] :
                   r \in CellsOf(board) \cup { NoCell }, s \in { "cross", "crown" } }
  /\ path_input \in
       UNION { { in_board_order(T) }
                 \cup ( IF \A c \in CellsOf(board) : state[c] = "empty"
                          THEN { reversed(in_board_order(T)),
                                 in_board_order(T) \o << NoCell >> }
                          ELSE {} )
               : T \in SUBSET CellsOf(board) }
  /\ settings \in [ click_enabled : BOOLEAN, click_cross_enabled : BOOLEAN,
                     click_crown_enabled : { TRUE } ]
  /\ click_enabled = settings.click_enabled
  /\ crowns = 0
  /\ guess_flag = FALSE
  /\ stop_flag = FALSE
  /\ pc = "path_call"
  /\ rule_idx = 1
  /\ progress = FALSE
  /\ stack = << >>
  /\ crown_found = FALSE
  /\ target_cell = NoCell
  /\ saved = << >>
  /\ guessed = FALSE
  /\ returned_empty = {}
  /\ entered = << >>
  /\ committed = {}
  /\ saved_from = << >>
  /\ clicks = [ c \in CellsOf(board) |-> 0 ]
  /\ drags = << >>
  /\ after_stop = 0
  /\ cancelled_guess = << >>
  /\ path_before = state
  /\ path_cells = << >>
  /\ segments = << >>
  /\ raised = ""
  /\ Constructed(board)

solver_vars == << board, crowns, guess_flag, click_enabled, rule_idx, progress,
                  stack, crown_found, target_cell, saved, guessed, returned_empty,
                  entered, committed, saved_from, settings, cancelled_guess,
                  query_vars >>

\* Mutant of cross_cells_path: the cells that precede the value that is not
\* a Cell are crossed before the TypeError is raised.
cross_cells_path_checks_late ==
  /\ pc = "path_call"
  /\ raised' = "TypeError"
  /\ pc' = "path_done"
  /\ state' = cross_cells(state, { c \in SeqToSet(path_input) \cap Cells : state[c] = "empty" })
  /\ UNCHANGED << clicks, path_cells, stop_flag, drags, after_stop, path_input,
                  path_before, segments, solver_vars >>

\* cross_cells_path up to its while loop: the type check, the filter, and
\* the branch taken when clicking is disabled in the settings.
cross_cells_path ==
  /\ pc = "path_call"
  /\ IF \E i \in DOMAIN path_input : path_input[i] \notin Cells
       THEN /\ raised' = "TypeError"
            /\ pc' = "path_done"
            /\ UNCHANGED << state, clicks, path_cells >>
       ELSE /\ path_cells' = SelectSeq(path_input, is_empty)
            /\ IF ~(settings.click_enabled /\ settings.click_cross_enabled)
                 THEN /\ state' = cross_cells(state, SeqToSet(path_cells'))
                      /\ clicks' = cross_clicks(clicks, state, SeqToSet(path_cells'))
                      /\ pc' = "path_done"
                 ELSE /\ pc' = "path_loop"
                      /\ UNCHANGED << state, clicks >>
            /\ UNCHANGED raised
  /\ UNCHANGED << stop_flag, drags, after_stop, path_input, path_before, segments,
                  solver_vars >>

\* click_and_drag_cells: every cell of the segment is toggled once, then
\* the drag from its first to its last cell is issued.
click_and_drag_cells(st, seg) ==
  [ c \in DOMAIN st |-> IF c \in SeqToSet(seg) THEN toggle_state(st[c]) ELSE st[c] ]

\* The cells of the segment that `cells_to_cross.remove(cell)` removes
\* before it meets a cell that is not in the list.
RECURSIVE removable(_, _)
removable(q, seg) ==
  IF seg = << >> \/ Head(seg) \notin SeqToSet(q) THEN << >>
  ELSE << Head(seg) >> \o removable(remove(q, Head(seg)), Tail(seg))

\* One turn of the while loop: commit the largest segment, by a drag or,
\* for a single cell, by set_cell_cross, and remove its cells from the list.
path_iteration ==
  /\ pc = "path_loop"
  /\ IF path_cells = << >>
       THEN /\ pc' = "path_done"
            /\ UNCHANGED << state, drags, after_stop, path_cells, segments, raised >>
     ELSE IF candidate_segments(state, path_cells) = {}
       THEN /\ raised' = "IndexError"
            /\ pc' = "path_done"
            /\ UNCHANGED << state, drags, after_stop, path_cells, segments >>
     ELSE \E seg \in { largest_segment(state, path_cells) } :
            /\ segments' = Append(segments, seg)
            /\ IF Len(seg) > 1
                 THEN /\ state' = click_and_drag_cells(state, seg)
                      /\ drags' = Append(drags, << seg[1], seg[Len(seg)] >>)
                      /\ after_stop' = after_stop + (IF stop_flag THEN 1 ELSE 0)
                      /\ path_cells' = remove_all(path_cells, removable(path_cells, seg))
                      /\ IF SeqToSet(seg) \subseteq SeqToSet(path_cells)
                           THEN pc' = "path_loop" /\ UNCHANGED raised
                           ELSE pc' = "path_done" /\ raised' = "ValueError"
                 ELSE /\ state' = set_cell_cross(state, seg[1])
                      /\ IF clicking(settings.click_cross_enabled)
                           THEN pc' = "path_click" /\ UNCHANGED path_cells
                           ELSE /\ pc' = "path_loop"
                                /\ path_cells' = remove(path_cells, seg[1])
                      /\ UNCHANGED << drags, after_stop, raised >>
  /\ UNCHANGED << stop_flag, clicks, path_input, path_before, solver_vars >>

\* toggle_cell, click_at: the click of the single cell, issued after the
\* stop flag was read as clear; then the cell is removed from the list.
path_click ==
  /\ pc = "path_click"
  /\ \E cell \in { segments[Len(segments)][1] } :
       /\ clicks' = [ clicks EXCEPT ![cell] = @ + 1 ]
       /\ path_cells' = remove(path_cells, cell)
  /\ after_stop' = after_stop + (IF stop_flag THEN 1 ELSE 0)
  /\ pc' = "path_loop"
  /\ UNCHANGED << state, stop_flag, drags, path_input, path_before, segments,
                  raised, solver_vars >>

NextPath == cross_cells_path \/ path_iteration \/ path_click \/ on_press

PathSpec == InitPath /\ [][NextPath]_vars

\* ------------------------------------------------------------------------
\* The Board on its own (board.py): a caller constructs a Board from a flat
\* list of cell_count cells and calls its position methods.  A cell is
\* named by its index in that list (from 0); cell_count itself names a
\* Cell that is not in the list.
\* ------------------------------------------------------------------------
MaxCount == 16

\* int(math.sqrt(n)) and int(n ** 0.5).
isqrt(n) == Max({ k \in 0 .. n : k * k <= n })

is_perfect_square(n) == isqrt(n) * isqrt(n) = n

\* _create_cell_matrix: row i is cells[i * size:(i + 1) * size].
create_cell_matrix(n) ==
  [ i \in 1 .. isqrt(n) |-> [ j \in 1 .. isqrt(n) |-> (i - 1) * isqrt(n) + (j - 1) ] ]

\* What a method hands back: the exception it raised ("" for none) and the
\* value it returned.
returns(v) == [ error |-> "", value |-> v ]

raises(e) == [ error |-> e, value |-> << >> ]

\* `0 <= row < len(self.cells) and 0 <= col < len(self.cells[0])`
in_bounds(m, row, col) ==
  /\ 0 <= row
  /\ row < Len(m)
  /\ 0 <= col
  /\ col < Len(m[1])

\* A faulty get_cell_at without the lower bound test: a negative index
\* counts from the end; C29_PositionRoundTrip does not hold of it.
get_cell_at_wraps(m, row, col) ==
  IF Len(m) > 0 /\ row < Len(m) /\ col < Len(m[1]) /\ row >= -Len(m) /\ col >= -Len(m[1])
    THEN returns(m[((row + Len(m)) % Len(m)) + 1][((col + Len(m[1])) % Len(m[1])) + 1])
    ELSE raises("IndexError")

get_cell_at(m, row, col) ==
  IF in_bounds(m, row, col) THEN returns(m[row + 1][col + 1])
                            ELSE raises("IndexError")

\* The screen position is top_left plus the centre of the cell found.
get_position_coordinates(m, row, col) ==
  IF in_bounds(m, row, col)
    THEN returns(<< "top_left", get_cell_at(m, row, col).value >>)
    ELSE raises("IndexError")

\* Board.get_cell_position: the first place of the row-major scan that
\* holds the cell.
grid_get_cell_position(m, cell) ==
  LET found == { p \in (0 .. (Len(m) - 1)) \X (0 .. (Len(m) - 1)) :
                   m[p[1] + 1][p[2] + 1] = cell }
  IN  IF found = {} THEN raises("ValueError")
      ELSE returns(CHOOSE p \in found :
                     \A q \in found : p[1] * Len(m) + p[2] <= q[1] * Len(m) + q[2])

\* Board.get_dimensions: (len(self.cells), len(self.cells[0])).
grid_get_dimensions(m) ==
  IF Len(m) = 0 THEN raises("IndexError") ELSE returns(<< Len(m), Len(m[1]) >>)

\* The loop of get_surrounding_cells: the cells of the 3x3 window around
\* (row, col) that are on the board, row by row.
window(m, row, col) ==
  LET places == [ k \in 1 .. 9 |-> << row - 1 + ((k - 1) \div 3), col - 1 + ((k - 1) % 3) >> ]
      inside == SelectSeq(places, LAMBDA p : in_bounds(m, p[1], p[2]))
  IN  [ k \in 1 .. Len(inside) |-> m[inside[k][1] + 1][inside[k][2] + 1] ]

\* A faulty get_surrounding_cells that does not remove the cell itself;
\* C25_SurroundingCells does not hold of it.
grid_get_surrounding_cells_with_self(m, cell) ==
  IF grid_get_cell_position(m, cell).error # "" THEN raises("ValueError")
  ELSE returns(window(m, grid_get_cell_position(m, cell).value[1],
                         grid_get_cell_position(m, cell).value[2]))

\* Board.get_surrounding_cells: the window without the cell.
grid_get_surrounding_cells(m, cell) ==
  IF grid_get_cell_position(m, cell).error # "" THEN raises("ValueError")
  ELSE returns(remove(window(m, grid_get_cell_position(m, cell).value[1],
                                grid_get_cell_position(m, cell).value[2]), cell))

InitGrid ==
  /\ cell_count \in 0 .. MaxCount
  /\ grid = << >>
  /\ pc = "construct"
  /\ raised = ""
  /\ call = NoCall
  /\ result = << >>
  /\ unit = NoUnit
  /\ members = << >>
  /\ board = 0
  /\ state = << >>
  /\ crowns = 0
  /\ guess_flag = FALSE
  /\ click_enabled = FALSE
  /\ stop_flag = FALSE
  /\ rule_idx = 1
  /\ progress = FALSE
  /\ stack = << >>
  /\ crown_found = FALSE
  /\ target_cell = NoCell
  /\ saved = << >>
  /\ guessed = FALSE
  /\ returned_empty = {}
  /\ entered = << >>
  /\ committed = {}
  /\ saved_from = << >>
  /\ settings = [ click_enabled |-> FALSE, click_cross_enabled |-> FALSE,
                  click_crown_enabled |-> FALSE ]
  /\ clicks = << >>
  /\ drags = << >>
  /\ after_stop = 0
  /\ cancelled_guess = << >>
  /\ path_input = << >>
  /\ path_before = << >>
  /\ path_cells = << >>
  /\ segments = << >>

grid_frame == << board, state, crowns, guess_flag, click_enabled, stop_flag,
                 rule_idx, progress, stack, crown_found, target_cell, saved,
                 guessed, returned_empty, entered, committed, saved_from,
                 settings, clicks, drags, after_stop, cancelled_guess,
                 path_input, path_before, path_cells, segments,
                 cell_count, unit, members >>

\* Board.__init__: ValueError unless the number of cells is a square.
Board_init ==
  /\ pc = "construct"
  /\ IF is_perfect_square(cell_count)
       THEN /\ grid' = create_cell_matrix(cell_count)
            /\ pc' = "built"
            /\ UNCHANGED raised
       ELSE /\ raised' = "ValueError"
            /\ pc' = "failed"
            /\ UNCHANGED grid
  /\ UNCHANGED << call, result, grid_frame >>

\* A method call on the constructed board: what was called, the exception
\* raised and the value returned.
answer(op, args, r) ==
  /\ pc = "built"
  /\ call' = [ op |-> op, args |-> args ]
  /\ raised' = r.error
  /\ result' = r.value
  /\ UNCHANGED << pc, grid, grid_frame >>

call_get_dimensions ==
  \E r \in { grid_get_dimensions(grid) } : answer("get_dimensions", << >>, r)

call_get_cell_at ==
  \E row, col \in -1 .. Len(grid) :
    answer("get_cell_at", << row, col >>, get_cell_at(grid, row, col))

call_get_position_coordinates ==
  \E row, col \in -1 .. Len(grid) :
    answer("get_position_coordinates", << row, col >>,
           get_position_coordinates(grid, row, col))

call_get_cell_position ==
  \E cell \in 0 .. cell_count :
    answer("get_cell_position", << cell >>, grid_get_cell_position(grid, cell))

call_get_surrounding_cells ==
  \E cell \in 0 .. cell_count :
    answer("get_surrounding_cells", << cell >>, grid_get_surrounding_cells(grid, cell))

NextGrid ==
  \/ Board_init
  \/ call_get_dimensions
  \/ call_get_cell_at
  \/ call_get_position_coordinates
  \/ call_get_cell_position
  \/ call_get_surrounding_cells

GridSpec == InitGrid /\ [][NextGrid]_vars

\* ------------------------------------------------------------------------
\* The units on their own (line.py, area.py): on a constructed board whose
\* resolved cells all lie in one unit, a caller asks that unit for its
\* empty spot, a line for its cells except one, and trims a stretch of a
\* line.
\* ------------------------------------------------------------------------
InitUnit ==
  /\ board \in 1 .. MaxBoard
  /\ unit \in Units(board)
  /\ members = create_members(board)
  /\ state \in { [ c \in CellsOf(board) |-> IF c \in DOMAIN f THEN f[c] ELSE "empty" ] :
                   f \in [ SeqToSet(members[unit]) -> States ] }
  /\ cell_count = get_dimensions(board) * get_dimensions(board)
  /\ grid = board_cells(board)
  /\ call = NoCall
  /\ result = << >>
  /\ pc = "units"
  /\ raised = ""
  /\ crowns = 0
  /\ guess_flag = FALSE
  /\ click_enabled = FALSE
  /\ stop_flag = FALSE
  /\ rule_idx = 1
  /\ progress = FALSE
  /\ stack = << >>
  /\ crown_found = FALSE
  /\ target_cell = NoCell
  /\ saved = << >>
  /\ guessed = FALSE
  /\ returned_empty = {}
  /\ entered = << >>
  /\ committed = {}
  /\ saved_from = << >>
  /\ settings = [ click_enabled |-> FALSE, click_cross_enabled |-> FALSE,
                  click_crown_enabled |-> FALSE ]
  /\ clicks = [ c \in CellsOf(board) |-> 0 ]
  /\ drags = << >>
  /\ after_stop = 0
  /\ cancelled_guess = << >>
  /\ path_input = << >>
  /\ path_before = state
  /\ path_cells = << >>
  /\ segments = << >>

unit_frame == << board, state, crowns, guess_flag, click_enabled, stop_flag, pc,
                 rule_idx, progress, stack, crown_found, target_cell, saved,
                 guessed, returned_empty, entered, committed, saved_from,
                 settings, clicks, drags, after_stop, cancelled_guess,
                 path_input, path_before, path_cells, segments,
                 cell_count, grid, unit >>

\* Line.check_empty_spot / Area.check_empty_spot on the unit.
call_check_empty_spot ==
  /\ pc = "units"
  /\ call' = [ op |-> "check_empty_spot", args |-> << unit >> ]
  /\ result' = check_empty_spot(state, SeqToSet(members[unit]))
  /\ raised' = ""
  /\ UNCHANGED << members, unit_frame >>

\* `cells_except_given = self.cells.copy(); cells_except_given.remove(cell)`:
\* list.remove raises ValueError for a cell that is not in the list.
cells_except_given(q, cell) ==
  IF cell \in SeqToSet(q) THEN returns(remove(q, cell)) ELSE raises("ValueError")

\* A faulty get_line_except_cell that removes the cell from self.cells
\* itself; C28_LineExceptCell does not hold of it.
call_get_line_except_cell_in_place ==
  /\ pc = "units"
  /\ unit[1] # "area"
  /\ \E cell \in Cells :
       /\ call' = [ op |-> "get_line_except_cell", args |-> << cell >> ]
       /\ result' = cells_except_given(members[unit], cell).value
       /\ raised' = cells_except_given(members[unit], cell).error
       /\ members' = IF raised' = "" THEN [ members EXCEPT ![unit] = result' ] ELSE members
  /\ UNCHANGED unit_frame

\* Line.get_line_except_cell on the line, with any cell of the board.
call_get_line_except_cell ==
  /\ pc = "units"
  /\ unit[1] # "area"
  /\ \E cell \in Cells :
       /\ call' = [ op |-> "get_line_except_cell", args |-> << cell >> ]
       /\ result' = cells_except_given(members[unit], cell).value
       /\ raised' = cells_except_given(members[unit], cell).error
  /\ UNCHANGED << members, unit_frame >>

\* trim_segment on a stretch of the line, or on the empty list.
call_trim_segment ==
  /\ pc = "units"
  /\ unit[1] # "area"
  /\ \E seg \in { SubSeq(members[unit], ab[1], ab[2]) :
                    ab \in { x \in (1 .. N) \X (0 .. N) : x[1] <= x[2] + 1 } } :
       /\ call' = [ op |-> "trim_segment", args |-> << seg >> ]
       /\ result' = trim_segment(state, seg)
  /\ raised' = ""
  /\ UNCHANGED << members, unit_frame >>

NextUnit == call_check_empty_spot \/ call_get_line_except_cell \/ call_trim_segment

UnitSpec == InitUnit /\ [][NextUnit]_vars

\* ------------------------------------------------------------------------
\* The puzzle: valid solutions of a board
\* ------------------------------------------------------------------------
adjacent(c, d) ==
  c # d /\ c[1] - d[1] \in -1 .. 1 /\ c[2] - d[2] \in -1 .. 1

\* S holds one cell per row, per column and per area, no two of them
\* king-move adjacent.
IsSolution(b, S) ==
  /\ \A i \in 0 .. (get_dimensions(b) - 1) :
       /\ Cardinality({ c \in S : c[1] = i }) = 1
       /\ Cardinality({ c \in S : c[2] = i }) = 1
  /\ \A a \in { color(b, c) : c \in CellsOf(b) } :
       Cardinality(S \cap area_cells(b, a)) = 1
  /\ \A c \in S : \A d \in S : ~adjacent(c, d)

Solutions(b) ==
  LET idx == 0 .. (get_dimensions(b) - 1)
  IN  { S \in { { << r, p[r] >> : r \in idx } : p \in [ idx -> idx ] } :
          IsSolution(b, S) }

SolutionsTbl == [ b \in 1 .. Len(Boards) |-> Solutions(b) ]

Marked(st) == { c \in DOMAIN st : st[c] = "crown" }

Unresolved(st) == { c \in DOMAIN st : st[c] = "empty" }

\* The board is solved: nothing unresolved and the marked cells are a
\* valid solution.
Solved(st) == Unresolved(st) = {} /\ IsSolution(board, Marked(st))

\* A solution extends a board when it marks every marked cell and no
\* excluded cell.
Extends(S, st) ==
  /\ Marked(st) \subseteq S
  /\ \A c \in S : st[c] # "cross"

Returned == pc = "done"

\* d shares the row, the column, the area or the 8-neighbourhood of c.
Shares(c, d) ==
  /\ d # c
  /\ \/ d[1] = c[1]
     \/ d[2] = c[2]
     \/ color(board, d) = color(board, c)
     \/ adjacent(c, d)

\* ------------------------------------------------------------------------
\* Properties
\* ------------------------------------------------------------------------

\* C1: on a board that has a valid solution, when solve returns and the stop
\* flag was never set, no cell is unresolved, every row, column and area
\* holds exactly one marked cell and no two marked cells are adjacent.
C1_SolveEndsSolved ==
  (Returned /\ ~stop_flag /\ SolutionsTbl[board] # {}) => Solved(state)

\* C2: on the 4x4 board whose areas are its rows, guess is never invoked,
\* and solve (not stopped) ends with exactly 4 marked cells, no unresolved
\* cell, one marked cell per row, column and area, no two adjacent.
C2_RowBoardSolvedWithoutGuess ==
  board = RowBoard =>
    /\ ~guessed
    /\ (Returned /\ ~stop_flag) =>
         (Cardinality(Marked(state)) = 4 /\ Solved(state))

\* C3: if the stop flag is never set, solve eventually returns; and it has
\* returned only with no unresolved cell left or with the stop flag set.
C3_SolveTerminates ==
  /\ ([]~stop_flag) => <>Returned
  /\ []((pc = "return" \/ Returned) => (Unresolved(state) = {} \/ stop_flag))

C3_Witness ==
  Returned /\ ~stop_flag /\ guessed /\ Unresolved(state) = {}

\* C4: a rule's proposal is applied only after every rule before it, in the
\* order one to five, returned an empty proposal on the same board; applying
\* it ends the iteration, and every iteration starts again at rule one.
C4_RulesInOrder ==
  [][ /\ (pc = "rules" /\ state' # state) =>
           /\ returned_empty = 1 .. (rule_idx - 1)
           /\ \A k \in 1 .. (rule_idx - 1) : rules(k, state) = NoProposal
           /\ rules(rule_idx, state) # NoProposal
           /\ pc' = "complete"
      /\ (pc # "rules" /\ pc' = "rules") =>
           (rule_idx' = 1 /\ returned_empty' = {})
      /\ (pc = "rules" /\ pc' = "rules" /\ rule_idx' # rule_idx) =>
           (state' = state /\ rule_idx' = rule_idx + 1)
    ]_vars

C4_Witness ==
  pc = "complete" /\ progress /\ rule_idx = NumRules
    /\ returned_empty = 1 .. (NumRules - 1)

\* C5: the loop invokes guess exactly when, in the current iteration, all
\* five rules returned an empty proposal and an unresolved cell remains.
C5_GuessIffStalled ==
  [][ /\ (pc = "complete" /\ pc' # pc) =>
           ((pc' = "guess") <=>
              (returned_empty = 1 .. NumRules /\ Unresolved(state) # {}))
      /\ (pc = "guess" /\ pc' # pc) => Len(stack') = Len(stack) + 1
      /\ (Len(stack') > Len(stack)) =>
           /\ pc = "guess"
           /\ returned_empty = 1 .. NumRules
           /\ Unresolved(state) # {}
    ]_vars

C5_Witness ==
  pc = "guess" /\ stack # << >> /\ Unresolved(state) # {}

\* C6: when guess returns, validated or not, the cell states, the crown
\* counter, the click switch and the guess flag are what they were when
\* that guess was entered, also for a guess inside another guess.
C6_GuessRestores ==
  pc = "guess_ret" =>
    /\ Len(entered) = Len(stack) + 1
    /\ LET e == entered[Len(entered)]
       IN  /\ state = e.state
           /\ crowns = e.crowns
           /\ click_enabled = e.click_enabled
           /\ guess_flag = e.guess_flag

C6_Witness ==
  pc = "guess_ret" /\ crown_found /\ click_enabled /\ stack = << >>

\* C7: restoring a snapshot just taken changes no cell, and restoring a
\* snapshot after any later toggles gives every cell its state at the time
\* the snapshot was taken.
C7_SnapshotRoundTrip ==
  /\ load_state(state, save_state(state)) = state
  /\ saved # << >> => load_state(state, saved) = saved_from

C7_Witness ==
  /\ saved # << >>
  /\ \E c \in Cells : saved_from[c] = "crown" /\ state[c] = "cross"
  /\ \E c \in Cells : saved_from[c] # saved_from[<< c[2], c[1] >>]

\* C8: on the live board, every cell that shares the row, the column, the
\* area or the 8-neighbourhood of a committed crown is crossed, from the
\* commit on and when solve returns.
C8_CrownExcludesAround ==
  stack = << >> =>
    \A c \in committed : \A d \in Cells : Shares(c, d) => state[d] = "cross"

C8_Witness ==
  /\ stack = << >>
  /\ pc = "rules"
  /\ guessed
  /\ Cardinality(committed) >= 2
  /\ Unresolved(state) # {}

\* C9: a failed guess, not stopped, changes one cell of the board the guess
\* was made on: the guess cell goes from empty to cross; the other cells
\* and the crown counter are as they were before the guess.
C9_FailedGuessCrossesTarget ==
  [][ (pc = "guess_ret" /\ pc' # pc /\ ~crown_found /\ ~stop_flag) =>
        LET e == entered[Len(entered)]
        IN  /\ e.state[target_cell] = "empty"
            /\ state' = [ e.state EXCEPT ![target_cell] = "cross" ]
            /\ crowns' = e.crowns
    ]_vars

\* A guess on the live board has failed and was applied: guess was called,
\* the live board is back in the loop, not stopped, and no crown was ever
\* committed on it.
C9_Witness ==
  /\ pc = "while"
  /\ guessed
  /\ stack = << >>
  /\ ~stop_flag
  /\ committed = {}
  /\ Unresolved(state) # {}

\* C10: on a board that has a valid solution, a guess on the live board is
\* reported as validated only if its cell is marked in some valid solution
\* that extends the live board.
C10_ValidatedGuessIsInSolution ==
  (pc = "guess_ret" /\ crown_found /\ stack = << >> /\ SolutionsTbl[board] # {}) =>
    \E S \in SolutionsTbl[board] : target_cell \in S /\ Extends(S, state)

\* C11: on a board that has a valid solution, a cell crossed on the live
\* board because its guess failed is marked in no valid solution that
\* extends the live board as it was before the guess.
C11_FailedGuessIsImpossible ==
  [][ (/\ pc = "guess_ret" /\ pc' # pc
       /\ ~crown_found /\ ~stop_flag /\ stack = << >>
       /\ state'[target_cell] = "cross"
       /\ SolutionsTbl[board] # {}) =>
        \A S \in SolutionsTbl[board] : Extends(S, state) => target_cell \notin S
    ]_vars

\* Every click setting is enabled.
AllClicksEnabled ==
  /\ settings.click_enabled
  /\ settings.click_cross_enabled
  /\ settings.click_crown_enabled

\* C12: from the entry of guess to its return (the speculative crown, the
\* rules of the speculative solve, nested guesses) no click and no drag is
\* issued, whatever the click settings.
C12_NoPointerActionInGuess ==
  [][ (stack # << >> \/ stack' # << >>) => (clicks' = clicks /\ drags' = drags) ]_vars

\* With every click setting enabled, clicks were issued on the live board
\* and a rule has just been applied inside a nested guess.
C12_Witness ==
  /\ AllClicksEnabled
  /\ \E c \in Cells : clicks[c] > 0
  /\ Len(stack) >= 2
  /\ pc = "complete"
  /\ progress

\* C14: when the stop flag was set while a guess was in progress, the live
\* board and the crown counter are, once solve has returned, what they were
\* just before that guess started.
C14_CancelledGuessCommitsNothing ==
  (Returned /\ cancelled_guess # << >>) =>
    /\ state = cancelled_guess[1].state
    /\ crowns = cancelled_guess[1].crowns

\* Solve has returned after Esc was pressed during a guess made on a live
\* board on which the rules had already crossed cells.
C14_Witness ==
  /\ Returned
  /\ cancelled_guess # << >>
  /\ \E c \in Cells : state[c] = "cross"
  /\ Unresolved(state) # {}

\* ------------------------------------------------------------------------
\* Claims about the action planner (PathSpec)
\* ------------------------------------------------------------------------
InputCells == SeqToSet(path_input)

\* The call was given cells only, all of them empty when it was made.
InputUnresolved ==
  \A c \in InputCells : c \in Cells /\ path_before[c] = "empty"

LiveAutomation == settings.click_enabled /\ settings.click_cross_enabled

RECURSIVE SumClicks(_)
SumClicks(S) ==
  IF S = {} THEN 0
  ELSE LET c == CHOOSE x \in S : TRUE IN clicks[c] + SumClicks(S \ { c })

PointerActions == Len(drags) + SumClicks(Cells)

\* C13: with the listener able to set the stop flag between any two steps,
\* a pointer action is issued only after the flag was read as clear, so at
\* most one pointer action (the one in flight) is issued once it is set.
C13_AtMostOneActionAfterStop == after_stop <= 1

\* C15: for a call with empty cells only and clicking enabled, the committed
\* segments cover exactly the input cells, each input cell lies in exactly
\* one of them, and each is a run of neighbouring cells of one line.
C15_SegmentsPartitionInput ==
  (pc = "path_done" /\ LiveAutomation /\ InputUnresolved) =>
    /\ UNION { SeqToSet(segments[i]) : i \in DOMAIN segments } = InputCells
    /\ \A c \in InputCells :
         Cardinality({ i \in DOMAIN segments : c \in SeqToSet(segments[i]) }) = 1
    /\ \A i \in DOMAIN segments :
         \E l \in SeqToSet(lines) : \E a \in 0 .. (N - 1) :
           segments[i] = [ k \in 1 .. Len(segments[i]) |-> line_cell(l, a + k - 1) ]

\* C16: a call with empty cells only, on any board state, returns without
\* raising and leaves every input cell crossed.
C16_ReturnsWithInputCrossed ==
  (pc = "path_done" /\ InputUnresolved) =>
    /\ raised = ""
    /\ \A c \in InputCells : state[c] = "cross"

\* C17: the call changes the state of no cell outside its input.
C17_OnlyInputCellsChange ==
  \A c \in Cells \ InputCells : state[c] = path_before[c]

\* The straight runs of the claim: inside one line, from a target to a
\* target, over targets and cells that were not empty.
run_ends(st, T, l) ==
  { x \in (0 .. (N - 1)) \X (0 .. (N - 1)) :
      /\ x[1] <= x[2]
      /\ line_cell(l, x[1]) \in T
      /\ line_cell(l, x[2]) \in T
      /\ \A k \in x[1] .. x[2] :
           line_cell(l, k) \in T \/ st[line_cell(l, k)] # "empty" }

Runs(st, T) ==
  UNION { { { line_cell(l, k) : k \in ab[1] .. ab[2] } : ab \in run_ends(st, T, l) }
          : l \in SeqToSet(lines) }

\* The least number of such runs that cover the targets U.
RECURSIVE MinRuns(_, _, _)
MinRuns(st, T, U) ==
  IF U = {} THEN 0
  ELSE LET c == first_cell(board, U)
       IN  1 + Min({ MinRuns(st, T, U \ r) : r \in { x \in Runs(st, T) : c \in x } })

\* C18: for a call with empty cells only that ran to its end with clicking
\* enabled and no stop, the number of pointer actions is the least number
\* of straight runs that cover the targets.
C18_FewestPointerActions ==
  (pc = "path_done" /\ raised = "" /\ LiveAutomation /\ ~stop_flag /\ InputUnresolved) =>
    PointerActions = MinRuns(path_before, InputCells, InputCells)

\* C19: a call whose list holds a value that is not a Cell fails with a
\* TypeError before any cell changes and before any pointer action.
C19_TypeErrorBeforeAnyEffect ==
  ((\E i \in DOMAIN path_input : path_input[i] \notin Cells) /\ pc # "path_call") =>
    /\ raised = "TypeError"
    /\ state = path_before
    /\ PointerActions = 0

C19_Witness ==
  /\ pc = "path_done"
  /\ raised = "TypeError"
  /\ LiveAutomation
  /\ Len(path_input) >= 3
  /\ path_input[1] \in Cells
  /\ path_before[path_input[1]] = "empty"
  /\ path_input[Len(path_input)] \notin Cells

\* C20: an input cell that is already crossed or crowned is not a target:
\* it keeps its state and no pointer action is aimed at it.
C20_ResolvedInputCellsUntouched ==
  \A c \in InputCells \cap Cells :
    path_before[c] # "empty" =>
      /\ state[c] = path_before[c]
      /\ clicks[c] = 0
      /\ \A i \in DOMAIN segments : c \notin SeqToSet(segments[i])

\* ------------------------------------------------------------------------
\* Claims about how the solving loop commits exclusions (Spec)
\* ------------------------------------------------------------------------
\* Two cells next to each other in one row or one column.
contiguous(c, d) ==
  \/ c[1] = d[1] /\ (c[2] - d[2] = 1 \/ d[2] - c[2] = 1)
  \/ c[2] = d[2] /\ (c[1] - d[1] = 1 \/ d[1] - c[1] = 1)

\* C21: the solving loop commits every exclusion set through the action
\* planner: with clicking enabled, a step that crosses two empty cells next
\* to each other in a line issues a drag and no click on those cells.
C21_ExclusionsThroughPlanner ==
  [][ \A c, d \in Cells :
        ( /\ clicking(settings.click_cross_enabled)
          /\ contiguous(c, d)
          /\ state[c] = "empty" /\ state[d] = "empty"
          /\ state'[c] = "cross" /\ state'[d] = "cross" )
        => ( /\ Len(drags') > Len(drags)
             /\ clicks'[c] = clicks[c]
             /\ clicks'[d] = clicks[d] ) ]_vars

\* C22: with clicking disabled a commit issues no pointer action and leaves
\* the cells and the crown counter as the same commit does with clicking
\* enabled: whatever the settings, a finished cross_cells_path call leaves
\* the board that the branch for disabled clicking leaves, every empty input
\* cell crossed and nothing else changed.
C22_SameStateWithoutClicks ==
  (pc = "path_done" /\ InputCells \subseteq Cells) =>
    /\ state = cross_cells(path_before, { c \in InputCells : path_before[c] = "empty" })
    /\ crowns = 0
    /\ (~LiveAutomation => PointerActions = 0)

\* ------------------------------------------------------------------------
\* Claims about the Board (GridSpec)
\* ------------------------------------------------------------------------
\* C23: construction fails exactly when the cell count is not a square;
\* otherwise the board has k rows of k cells with k * k the cell count,
\* cell number i of the list is at row i div k, column i mod k, and
\* get_dimensions returns (k, k).
C23_SquareBoards ==
  /\ pc = "failed" =>
       /\ raised = "ValueError"
       /\ ~ \E k \in 0 .. cell_count : k * k = cell_count
  /\ pc = "built" =>
       \E k \in 0 .. cell_count :
         /\ k * k = cell_count
         /\ Len(grid) = k
         /\ \A i \in 1 .. k : Len(grid[i]) = k
         /\ \A i \in 0 .. (cell_count - 1) : grid[(i \div k) + 1][(i % k) + 1] = i
         /\ call.op = "get_dimensions" => (raised = "" /\ result = << k, k >>)

\* The place of an on-board cell, and the cells around a place.
place_of(cell) == grid_get_cell_position(grid, cell).value

around(p) ==
  { grid[q[1] + 1][q[2] + 1] :
      q \in { x \in (0 .. (Len(grid) - 1)) \X (0 .. (Len(grid) - 1)) :
                /\ x # p
                /\ x[1] - p[1] \in -1 .. 1
                /\ x[2] - p[2] \in -1 .. 1 } }

on_border(k) == k = 0 \/ k = Len(grid) - 1

\* The number of cells the claim gives for a place: 3 in a corner, 5 on an
\* edge, 8 inside.
claimed_count(p) ==
  IF on_border(p[1]) /\ on_border(p[2]) THEN 3
  ELSE IF on_border(p[1]) \/ on_border(p[2]) THEN 5
  ELSE 8

surrounding_is_symmetric ==
  \A a, b \in 0 .. (cell_count - 1) :
    (a \in SeqToSet(grid_get_surrounding_cells(grid, b).value))
      <=> (b \in SeqToSet(grid_get_surrounding_cells(grid, a).value))

\* C25 as stated: get_surrounding_cells of a cell of the board returns each
\* cell around it once and no other, 3 for a corner, 5 for an edge cell, 8
\* for a cell inside, on a board of any size, and the relation is symmetric.
C25_SurroundingCellsAnySize ==
  (call.op = "get_surrounding_cells" /\ call.args[1] < cell_count) =>
    /\ raised = ""
    /\ SeqToSet(result) = around(place_of(call.args[1]))
    /\ Len(result) = Cardinality(SeqToSet(result))
    /\ Len(result) = claimed_count(place_of(call.args[1]))
    /\ surrounding_is_symmetric

\* C25, amended: the same, the three counts on boards of two or more rows
\* (the only cell of a 1 x 1 board has no cell around it).
C25_SurroundingCells ==
  (call.op = "get_surrounding_cells" /\ call.args[1] < cell_count) =>
    /\ raised = ""
    /\ SeqToSet(result) = around(place_of(call.args[1]))
    /\ Len(result) = Cardinality(SeqToSet(result))
    /\ Len(grid) >= 2 => Len(result) = claimed_count(place_of(call.args[1]))
    /\ surrounding_is_symmetric

C25_Witness ==
  /\ call.op = "get_surrounding_cells"
  /\ call.args[1] < cell_count
  /\ Len(grid) >= 4
  /\ ~on_border(place_of(call.args[1])[1])
  /\ ~on_border(place_of(call.args[1])[2])
  /\ Len(result) = 8

\* C29: get_cell_position undoes get_cell_at; get_cell_at and
\* get_position_coordinates raise IndexError for a row or column outside
\* 0 .. N - 1, negative ones included; get_cell_position raises ValueError
\* for a cell that is not on the board.
C29_PositionRoundTrip ==
  /\ call.op \in { "get_cell_at", "get_position_coordinates" } =>
       IF call.args[1] \in 0 .. (Len(grid) - 1) /\ call.args[2] \in 0 .. (Len(grid) - 1)
         THEN /\ raised = ""
              /\ call.op = "get_cell_at" =>
                   grid_get_cell_position(grid, result) = returns(call.args)
         ELSE raised = "IndexError"
  /\ call.op = "get_cell_position" =>
       IF call.args[1] < cell_count
         THEN raised = "" /\ get_cell_at(grid, result[1], result[2]) = returns(call.args[1])
         ELSE raised = "ValueError"

C29_Witness ==
  /\ call.op = "get_cell_at"
  /\ Len(grid) >= 3
  /\ call.args[1] = -1
  /\ call.args[2] \in 0 .. (Len(grid) - 1)
  /\ raised = "IndexError"

\* ------------------------------------------------------------------------
\* Claims about lines and areas (UnitSpec)
\* ------------------------------------------------------------------------
\* C24: check_empty_spot of a line or area returns a cell exactly when the
\* unit has no crowned cell and exactly one empty cell, and then returns
\* that empty cell; otherwise it returns none.
C24_EmptySpot ==
  call.op = "check_empty_spot" =>
    /\ result # {} <=>
         /\ \A c \in SeqToSet(members[unit]) : state[c] # "crown"
         /\ Cardinality({ c \in SeqToSet(members[unit]) : state[c] = "empty" }) = 1
    /\ result # {} =>
         result = { c \in SeqToSet(members[unit]) : state[c] = "empty" }

C24_Witness ==
  /\ call.op = "check_empty_spot"
  /\ unit[1] = "area"
  /\ Len(members[unit]) >= 3
  /\ result # {}

\* C28: get_line_except_cell returns the other cells of the line in the
\* order of the line for a cell of the line, raises for any other cell,
\* and leaves the line's own list as constructed.
C28_LineExceptCell ==
  call.op = "get_line_except_cell" =>
    /\ members[unit] = cells_in_line(board, unit)
    /\ IF call.args[1] \in line_cells(board, unit)
         THEN /\ raised = ""
              /\ Len(result) = N - 1
              /\ \A k \in 1 .. (N - 1) :
                   result[k] = line_cell(unit, IF k - 1 < get_position(unit, call.args[1])
                                                  THEN k - 1 ELSE k)
         ELSE raised = "ValueError"

C28_Witness ==
  /\ call.op = "get_line_except_cell"
  /\ raised = ""
  /\ Len(result) = 3
  /\ get_position(unit, call.args[1]) = 1

\* C30: trim_segment keeps the cells from the first empty cell to the last
\* empty cell of the segment, in order, non-empty cells between them
\* included; without an empty cell the result is empty; trimming the result
\* again changes nothing.
C30_TrimSegment ==
  call.op = "trim_segment" =>
    \E seg \in { call.args[1] } :
      \E E \in { { i \in DOMAIN seg : state[seg[i]] = "empty" } } :
        /\ result = IF E = {} THEN << >> ELSE SubSeq(seg, Min(E), Max(E))
        /\ trim_segment(state, result) = result

C30_Witness ==
  /\ call.op = "trim_segment"
  /\ Len(call.args[1]) = 4
  /\ state[call.args[1][1]] = "cross"
  /\ state[call.args[1][2]] = "empty"
  /\ state[call.args[1][3]] = "crown"
  /\ state[call.args[1][4]] = "empty"
  /\ Len(result) = 3

\* ------------------------------------------------------------------------
\* Claims about the constructed units during a solve (Spec)
\* ------------------------------------------------------------------------
AreaUnits == { u \in DOMAIN members : u[1] = "area" }

\* C26: the areas partition the cells, every cell is in exactly one row and
\* exactly one column, and its row_ref, column_ref and area_ref are the
\* units that hold it.
C26_UnitsPartitionCells ==
  /\ UNION { SeqToSet(members[u]) : u \in AreaUnits } = Cells
  /\ \A u, v \in AreaUnits :
       u # v => SeqToSet(members[u]) \cap SeqToSet(members[v]) = {}
  /\ \A c \in Cells :
       /\ Cardinality({ u \in DOMAIN members : u[1] = "row" /\ c \in SeqToSet(members[u]) }) = 1
       /\ Cardinality({ u \in DOMAIN members : u[1] = "column" /\ c \in SeqToSet(members[u]) }) = 1
       /\ c \in SeqToSet(members[row_ref(c)])
       /\ c \in SeqToSet(members[column_ref(c)])
       /\ c \in SeqToSet(members[<< "area", area_ref(c) >>])

C26_Witness ==
  /\ pc = "while"
  /\ ~guessed
  /\ \A c \in Cells : state[c] = "empty"
  /\ Cardinality(AreaUnits) = 4
  /\ \E u \in AreaUnits : Len(members[u]) >= 6
  /\ \E u \in AreaUnits : Len(members[u]) = 1

\* C27: throughout a solve every cell's state is one of the three, and the
\* board, its matrix of cells and the member list of every unit stay as
\* constructed; only cell states change.
C27_OnlyStatesChange ==
  /\ [](state \in [ Cells -> States ])
  /\ [][ board' = board /\ grid' = grid /\ members' = members ]_vars

C27_Witness ==
  /\ guessed
  /\ stack = << >>
  /\ \E c \in Cells : state[c] = "crown"
  /\ \E c \in Cells : state[c] = "cross"
  /\ members = create_members(board)

\* ------------------------------------------------------------------------
\* Claims about the deduction rules, at every call made by the solving
\* loop (Spec, LargeSpec)
\* ------------------------------------------------------------------------
\* The cells of region number i (in creation order), of row r, of column k.
region(i) == { c \in Cells : color(board, c) = areas[i] }

row(r) == { c \in Cells : c[1] = r }

column(k) == { c \in Cells : c[2] = k }

\* A unit with no marked cell and exactly one unresolved cell.
single(S) ==
  /\ \A c \in S : state[c] # "crown"
  /\ Cardinality({ c \in S : state[c] = "empty" }) = 1

\* The cell rule one is to mark (a set of at most one cell): the unresolved
\* member of the first single region, else row, else column.
first_single ==
  LET R == { i \in 1 .. Len(areas) : single(region(i)) }
      rows == { r \in 0 .. (N - 1) : single(row(r)) }
      columns == { k \in 0 .. (N - 1) : single(column(k)) }
  IN  IF R # {} THEN Unresolved(state) \cap region(Min(R))
      ELSE IF rows # {} THEN Unresolved(state) \cap row(Min(rows))
      ELSE IF columns # {} THEN Unresolved(state) \cap column(Min(columns))
      ELSE {}

\* C31: rule one proposes a mark exactly when some region or line has no
\* marked and exactly one unresolved member; the cell is that member of the
\* first such region in creation order, else of the first such row, else of
\* the first such column; the exclusions are exactly the other cells of the
\* cell's row, column, region and 8-neighbourhood, never the cell itself.
C31_RuleOne ==
  (pc = "rules" /\ rule_idx = 1) =>
    /\ rule_one(state).crown = first_single
    /\ rule_one(state).crosses =
         UNION { { d \in Cells : Shares(c, d) } : c \in first_single }
    /\ rule_one(state).crown \cap rule_one(state).crosses = {}

\* Rule one is called where no region but a line has a single spot, and
\* some cell around that spot is still unresolved.
C31_Witness ==
  /\ pc = "rules" /\ rule_idx = 1
  /\ rule_one(state).crown # {}
  /\ \A i \in 1 .. Len(areas) : ~single(region(i))
  /\ rule_one(state).crosses \cap Unresolved(state) # {}

\* The rows and the columns, as sets of cells.
Lines == { row(r) : r \in 0 .. (N - 1) } \cup { column(k) : k \in 0 .. (N - 1) }

\* The unresolved cells that rule two may exclude: for a region with at
\* least two unresolved cells, all in the line L, the unresolved cells of L
\* outside the region.
confined_exclusions ==
  UNION { IF /\ Cardinality(Unresolved(state) \cap region(i)) >= 2
             /\ Unresolved(state) \cap region(i) \subseteq L
            THEN (Unresolved(state) \cap L) \ region(i)
            ELSE {}
          : i \in 1 .. Len(areas), L \in Lines }

\* C32: whenever some region with at least two unresolved cells has all of
\* them in one row or column and that line holds an unresolved cell of
\* another region, rule two returns a non-empty exclusion set, and every
\* cell it returns is an unresolved cell of such a line outside the
\* confined region.
C32_RuleTwo ==
  (pc = "rules" /\ rule_idx = 2) =>
    /\ confined_exclusions # {} => rule_two(state).crosses # {}
    /\ rule_two(state).crosses \subseteq confined_exclusions

\* The unresolved cells that rule three may exclude: for a line whose
\* unresolved cells (at least one) all lie in one region, the unresolved
\* cells of that region outside the line.
captive_exclusions ==
  UNION { IF /\ Unresolved(state) \cap L # {}
             /\ Unresolved(state) \cap L \subseteq region(i)
            THEN (Unresolved(state) \cap region(i)) \ L
            ELSE {}
          : i \in 1 .. Len(areas), L \in Lines }

\* C33: whenever some row or column has all its unresolved cells in one
\* region and that region has an unresolved cell outside the line, rule
\* three returns a non-empty exclusion set, and every cell it returns is an
\* unresolved cell of that region outside that line.
C33_RuleThree ==
  (pc = "rules" /\ rule_idx = 3) =>
    /\ captive_exclusions # {} => rule_three(state).crosses # {}
    /\ rule_three(state).crosses \subseteq captive_exclusions

\* The attack set of a cell: its 8 neighbours and the other cells of its
\* row and of its column.
attack(c) ==
  { d \in Cells : d # c /\ (adjacent(c, d) \/ d[1] = c[1] \/ d[2] = c[2]) }

\* The regions with at least two unresolved cells, and the sets rule four
\* hands to get_common_cells for such a region.
candidates(i) == Unresolved(state) \cap region(i)

crowded == { i \in 1 .. Len(areas) : Cardinality(candidates(i)) >= 2 }

surroundings(i) == { surrounding_and_lines(e) : e \in candidates(i) }

\* C34: rule four returns exactly the unresolved cells that lie in the
\* attack set of every unresolved cell of some region with at least two
\* unresolved cells; get_common_cells returns the cells present in every
\* given set (none for no set, the set itself for one set); and no cell
\* comes from the candidates of its own region.
C34_RuleFour ==
  (pc = "rules" /\ rule_idx = 4) =>
    /\ rule_four(state).crosses =
         { x \in Unresolved(state) :
             \E i \in crowded : \A e \in candidates(i) : x \in attack(e) }
    /\ get_common_cells({}) = {}
    /\ \A c \in Cells :
         get_common_cells({ surrounding_and_lines(c) }) = surrounding_and_lines(c)
    /\ \A i \in crowded :
         /\ get_common_cells(surroundings(i)) =
              { c \in Cells : \A S \in surroundings(i) : c \in S }
         /\ get_common_cells(surroundings(i)) \cap region(i) \cap Unresolved(state) = {}

\* Rule four is called and excludes a cell that is attacked by all three or
\* more candidates of a region.
C34_Witness ==
  /\ pc = "rules" /\ rule_idx = 4
  /\ \E i \in crowded :
       /\ Cardinality(candidates(i)) >= 3
       /\ get_common_cells(surroundings(i)) \cap Unresolved(state) # {}

\* The rows (kind "row") or columns (kind "column") that the unresolved
\* cells of a region, or of a group of regions, touch.
line_index(c, kind) == IF kind = "row" THEN c[1] ELSE c[2]

touched(G, kind) ==
  { line_index(c, kind) : c \in UNION { candidates(i) : i \in G } }

\* The groups of k regions, 2 <= k <= ceil(RegionCount / 2), each with an
\* unresolved cell.
groups ==
  { G \in SUBSET { i \in 1 .. Len(areas) : candidates(i) # {} } :
      Cardinality(G) \in 2 .. ((Len(areas) + 1) \div 2) }

\* The unresolved cells in the lines of a group that belong to a region
\* outside the group.
group_exclusions(G, kind) ==
  { c \in Unresolved(state) :
      /\ line_index(c, kind) \in touched(G, kind)
      /\ \A i \in G : c \notin region(i) }

\* For the groups whose regions all touch the same k lines, and for the
\* groups whose regions together touch k lines.
same_lines_exclusions ==
  UNION { IF /\ Cardinality(touched(G, kind)) = Cardinality(G)
             /\ \A i \in G : touched({ i }, kind) = touched(G, kind)
            THEN group_exclusions(G, kind) ELSE {}
          : G \in groups, kind \in { "row", "column" } }

matched_exclusions ==
  UNION { IF Cardinality(touched(G, kind)) = Cardinality(G)
            THEN group_exclusions(G, kind) ELSE {}
          : G \in groups, kind \in { "row", "column" } }

\* C35: whenever k regions, 2 <= k <= ceil(RegionCount / 2), have their
\* unresolved cells on exactly the same k rows (or k columns) and those
\* lines hold an unresolved cell of a region outside the group, rule five
\* returns a non-empty exclusion set; every cell it returns is unresolved,
\* lies in the lines of a matched group and belongs to a region outside it.
C35_RuleFive ==
  (pc = "rules" /\ rule_idx = 5) =>
    /\ same_lines_exclusions # {} => rule_five(state).crosses # {}
    /\ rule_five(state).crosses \subseteq matched_exclusions

\* The region guess is to take its target from: the one with the fewest
\* unresolved cells among those that have any, the earliest created of
\* them when several have as few.
smallest_region ==
  CHOOSE i \in 1 .. Len(areas) :
    /\ candidates(i) # {}
    /\ \A j \in 1 .. Len(areas) :
         candidates(j) # {} =>
           \/ Cardinality(candidates(i)) < Cardinality(candidates(j))
           \/ Cardinality(candidates(i)) = Cardinality(candidates(j)) /\ i <= j

\* The unresolved members of a region in the order of its member list.
unresolved_members(i) ==
  SelectSeq(members[<< "area", areas[i] >>], LAMBDA c : state[c] = "empty")

\* C36: when the loop invokes guess, the target is the first unresolved
\* cell, in member order (which is row-major order), of the region with
\* the smallest positive number of unresolved cells, ties going to the
\* region created first; a region without unresolved cell is never taken,
\* and the target of every guess was unresolved when guess was invoked.
C36_GuessTarget ==
  /\ pc = "guess" =>
       /\ \E i \in 1 .. Len(areas) : candidates(i) # {}
       /\ guess_target(state) = unresolved_members(smallest_region)[1]
       /\ \A d \in candidates(smallest_region) :
            get_cell_position(board, guess_target(state)) <= get_cell_position(board, d)
       /\ state[guess_target(state)] = "empty"
  /\ \A k \in DOMAIN stack :
       entered[k].state[stack[k].target_cell] = "empty"

\* guess is invoked where two regions tie for the fewest unresolved cells,
\* neither being the first region, and some region has none left.
C36_Witness ==
  /\ pc = "guess"
  /\ smallest_region > 1
  /\ \E j \in 1 .. Len(areas) :
       /\ j # smallest_region
       /\ Cardinality(candidates(j)) = Cardinality(candidates(smallest_region))
  /\ \E j \in 1 .. Len(areas) : candidates(j) = {}

\* A step of a rule on the live board, outside every guess.
live_rule_step == pc = "rules" /\ stack = << >> /\ state' # state

\* C37: on a board with a unique valid solution, no step taken by a rule
\* on the live board outside speculation excludes a cell that the solution
\* marks, and none marks a cell that the solution does not mark.
C37_RulesPreserveSolution ==
  [][ (live_rule_step /\ Cardinality(SolutionsTbl[board]) = 1) =>
        \A S \in SolutionsTbl[board] : \A c \in Cells :
          /\ (state[c] # "cross" /\ state'[c] = "cross") => c \notin S
          /\ (state[c] # "crown" /\ state'[c] = "crown") => c \in S
    ]_vars

\* C38: between two rule applications, on the live board and inside every
\* guess, the counter self.crowns equals the number of marked cells; and
\* when a speculative solve has returned, the counter equals the number of
\* regions exactly when the board has that many marked cells.
C38_CounterCountsMarked ==
  /\ pc \in { "while", "rules", "complete" } =>
       crowns = Cardinality(Marked(state))
  /\ (pc = "return" /\ stack # << >>) =>
       ((crowns = Len(areas)) <=> (Cardinality(Marked(state)) = Len(areas)))

\* The external board: a cell that started unresolved and was clicked n
\* times, each click moving it one step along unresolved -> excluded ->
\* marked -> unresolved.
RECURSIVE clicked(_, _)
clicked(s, n) ==
  IF n = 0 THEN s
  ELSE clicked(CASE s = "empty" -> "cross"
                 [] s = "cross" -> "crown"
                 [] s = "crown" -> "empty", n - 1)

external(c) == clicked("empty", clicks[c])

\* C39: with every click setting enabled, whenever solve has returned,
\* solved or cancelled at whatever moment the listener set the stop flag,
\* every cell of the external board has its in-memory state.
C39_ExternalBoardInStep ==
  (Returned /\ AllClicksEnabled) => \A c \in Cells : external(c) = state[c]

\* From the board before to the board after: fewer unresolved cells, and no
\* resolved cell unresolved again.
resolves(before, after) ==
  /\ Cardinality(Unresolved(after)) < Cardinality(Unresolved(before))
  /\ \A c \in Cells : before[c] # "empty" => after[c] # "empty"

\* C40: every iteration of the solving loop in which a rule proposal is
\* applied, or a guess is committed as a mark with its exclusions or as a
\* single exclusion, leaves the board it runs on (the live board, or the
\* board of the guess it runs in) with strictly fewer unresolved cells and
\* with no resolved cell turned back into an unresolved one.
C40_IterationsResolveCells ==
  [][ /\ (pc = "rules" /\ pc' = "complete" /\ progress') =>
           resolves(state, state')
      /\ (pc = "guess_ret" /\ pc' = "while" /\ ~stop_flag) =>
           /\ resolves(entered[Len(entered)].state, state')
           /\ \/ state'[target_cell] = "crown"
              \/ /\ state'[target_cell] = "cross"
                 /\ \A c \in Cells \ { target_cell } :
                      state'[c] = entered[Len(entered)].state[c]
    ]_vars

\* Inside a guess a rule proposal has crossed the speculative crown, and
\* the loop goes on.
C40_Witness ==
  /\ pc = "while"
  /\ ~stop_flag
  /\ stack # << >>
  /\ state[stack[Len(stack)].target_cell] = "cross"
  /\ Unresolved(state) # {}

====
